---- MODULE Spec2Model ----
(***************************************************************************)
(* Model of the dirty-validators composition engine                        *)
(* (dirty_validators/ctx.py, basic.py, complex.py).                        *)
(*                                                                         *)
(* Python strings are sequences of one-character strings, so that str(),   *)
(* '.'.join, split, startswith and isdigit are computed, not assumed.      *)
(* Python values are tagged records:                                       *)
(*   [t |-> "none"]                      None                              *)
(*   [t |-> "str",  s |-> <<chars>>]     a str                             *)
(*   [t |-> "int",  n |-> i]             an int                            *)
(*   [t |-> "list", items |-> <<v..>>]   a list                            *)
(*   [t |-> "dict", entries |-> <<[k |-> key, v |-> value]..>>]            *)
(*                                       a dict, in insertion order        *)
(*   [t |-> "obj",  attrs |-> <<[k |-> name, v |-> value]..>>]             *)
(*                                       an object with attributes         *)
(*   [t |-> "raise", exc |-> name]       stands for a call that raised     *)
(* An optional reference (parent context, field_path, optional validator)  *)
(* is Nil or Opt(x).                                                       *)
(***************************************************************************)
EXTENDS Integers, Sequences, FiniteSets, TLC

\* one call of validator.is_valid(value, parent_ctx=...)
VARIABLES pc, validator, value, parent_ctx, result, executed

\* the Context and ValidationErrorMessage objects a client holds: the
\* objects now, the objects before the last operation, the last operation
VARIABLES heap, before, last

\* one lookup self.get_field_value(field_path)
VARIABLES lookup_self, lookup_field_path, lookup_result

\* one validator object of basic.py that several calls use: the object, its
\* field messages, the calls under way, the calls that have returned
VARIABLES subject, messages, callers, runs

\* one export from_context_to_legacy_message(ctx)
VARIABLES legacy_ctx, legacy_result

callVars == <<pc, validator, value, parent_ctx, result, executed>>

heapVars == <<heap, before, last>>

lookupVars == <<lookup_self, lookup_field_path, lookup_result>>

objVars == <<subject, messages, callers, runs>>

legacyVars == <<legacy_ctx, legacy_result>>

vars == <<callVars, heapVars, lookupVars, objVars, legacyVars>>

\* ------------------------------------------------------------------ bounds

MaxValidators == 3

MaxItems == 3

MaxFields == 2

MaxEntries == 2

\* Context objects a client holds at once
MaxContexts == 2

\* ValidationErrorMessage objects that exist at once
MaxErrors == 4

\* contexts in a chain, the root included
MaxDepth == 3

\* records nested in a record given to a self-referential schema
MaxNesting == 3

\* calls made one after the other on one validator object
MaxRuns == 3

\* calls under way at the same time on one validator object
MaxCallers == 2

\* errors of a context that is exported to the legacy form
MaxExported == 3

\* ------------------------------------------------------------ basic values

Nil == <<>>

Opt(x) == <<x>>

PyNone == [t |-> "none"]

PyStr(s) == [t |-> "str", s |-> s]

PyInt(n) == [t |-> "int", n |-> n]

PyList(items) == [t |-> "list", items |-> items]

PyDict(entries) == [t |-> "dict", entries |-> entries]

PyObj(attrs) == [t |-> "obj", attrs |-> attrs]

\* an instance of the model class named class, its set fields in order
PyModel(class, entries) == [t |-> "model", class |-> class, entries |-> entries]

\* the outcome of a call that raises exc instead of returning
PyRaise(exc) == [t |-> "raise", exc |-> exc]

DigitChars == <<"0", "1", "2", "3", "4", "5", "6", "7", "8", "9">>

RECURSIVE IntToStr(_)
IntToStr(n) ==
    IF n < 10 THEN <<DigitChars[n + 1]>>
    ELSE IntToStr(n \div 10) \o <<DigitChars[(n % 10) + 1]>>

\* str(x) for the values used as indexes and keys
str(x) ==
    CASE x.t = "str" -> x.s
      [] x.t = "int" -> IntToStr(x.n)
      [] OTHER -> <<"N", "o", "n", "e">>

\* '.'.join([a, b])
DotJoin(a, b) == a \o <<".">> \o b

RECURSIVE SeqsUpTo(_, _)
SeqsUpTo(S, n) ==
    IF n = 0 THEN {<<>>}
    ELSE LET shorter == SeqsUpTo(S, n - 1)
         IN  shorter \cup {Append(q, x) : q \in {p \in shorter : Len(p) = n - 1}, x \in S}

\* ------------------------------------------------ ValidationErrorMessage

ValidationErrorMessage(code, msg_tpl, ctx_values, field_path) ==
    [code |-> code, msg_tpl |-> msg_tpl, ctx_values |-> ctx_values, field_path |-> field_path]

\* faulty variant: the prefix is joined behind the child's path
copy_as_child_suffixed(self, field_path) ==
    LET fp == IF field_path = Nil THEN self.field_path
              ELSE IF self.field_path # Nil
                   THEN Opt(DotJoin(self.field_path[1], field_path[1]))
                   ELSE field_path
    IN  ValidationErrorMessage(self.code, self.msg_tpl, self.ctx_values, fp)

copy_as_child(self, field_path) ==
    LET fp == IF field_path = Nil THEN self.field_path
              ELSE IF self.field_path # Nil
                   THEN Opt(DotJoin(field_path[1], self.field_path[1]))
                   ELSE field_path
    IN  ValidationErrorMessage(self.code, self.msg_tpl, self.ctx_values, fp)

\* ---------------------------------------------------------------- Context

Context(val, parent, is_step, message_values) ==
    [value |-> val,
     parent |-> parent,
     is_step |-> (is_step \/ parent = Nil),
     message_values |-> message_values,
     error_messages |-> <<>>]

add_error(ctx, validation_error) ==
    [ctx EXCEPT !.error_messages = Append(@, validation_error)]

error(ctx, error_code, error_message_tpl, kwargs) ==
    add_error(ctx, ValidationErrorMessage(error_code, error_message_tpl,
                                          ctx.message_values \o kwargs
                                              \o <<[k |-> "value", v |-> ctx.value]>>,
                                          Nil))

RECURSIVE import_errors_from(_, _, _, _)
import_errors_from(self, errs, field_path, i) ==
    IF i > Len(errs) THEN self
    ELSE import_errors_from(add_error(self, copy_as_child(errs[i], field_path)),
                            errs, field_path, i + 1)

import_errors(self, ctx, field_path) ==
    import_errors_from(self, ctx.error_messages, field_path, 1)

build_child(self, val) == Context(val, Opt(self), FALSE, self.message_values)

\* Context.__bool__
IsValidCtx(ctx) == Len(ctx.error_messages) = 0

\* ------------------------------------------------- objects and references
\* Where the identity of objects matters, Context and ValidationErrorMessage
\* objects live in a heap h: h.contexts[c] is the Context of reference c,
\* whose parent is Nil or Opt(reference) and whose error_messages is a list
\* of references into h.errors.

\* ValidationErrorMessage(...): a new object and its reference
new_error(h, msg) ==
    [heap |-> [h EXCEPT !.errors = Append(@, msg)], ref |-> Len(h.errors) + 1]

\* Context(value=val, parent=parent, is_step=is_step): a new object
new_context(h, val, parent, is_step) ==
    [h EXCEPT !.contexts = Append(@, Context(val, parent, is_step, <<>>))]

\* faulty variant: the error is handed on to the parent
Ctx_add_error_inherited(h, self, validation_error) ==
    LET h1 == [h EXCEPT !.contexts[self] = add_error(@, validation_error)]
    IN  IF h.contexts[self].parent = Nil THEN h1
        ELSE [h1 EXCEPT !.contexts[h.contexts[self].parent[1]] =
                            add_error(@, validation_error)]

\* self.add_error(validation_error)
Ctx_add_error(h, self, validation_error) ==
    [h EXCEPT !.contexts[self] = add_error(@, validation_error)]

\* self.error(error_code, error_message_tpl, **kwargs)
Ctx_error(h, self, error_code, error_message_tpl, kwargs) ==
    LET c == h.contexts[self]
        n == new_error(h, ValidationErrorMessage(
                               error_code, error_message_tpl,
                               c.message_values \o kwargs \o <<[k |-> "value", v |-> c.value]>>,
                               Nil))
    IN  Ctx_add_error(n.heap, self, n.ref)

\* faulty variant: the path is set on the source object, which is handed on
Msg_copy_as_child_in_place(h, e, field_path) ==
    [heap |-> [h EXCEPT !.errors[e] = copy_as_child(@, field_path)], ref |-> e]

\* h.errors[e].copy_as_child(field_path): a new object and its reference
Msg_copy_as_child(h, e, field_path) == new_error(h, copy_as_child(h.errors[e], field_path))

\* self.import_errors(ctx, field_path): the loop reads the list of ctx as
\* it is at each iteration
RECURSIVE Ctx_import_errors_from(_, _, _, _, _)
Ctx_import_errors_from(h, self, ctx, field_path, i) ==
    IF i > Len(h.contexts[ctx].error_messages) THEN h
    ELSE LET n == Msg_copy_as_child(h, h.contexts[ctx].error_messages[i], field_path)
         IN  Ctx_import_errors_from(Ctx_add_error(n.heap, self, n.ref),
                                    self, ctx, field_path, i + 1)

Ctx_import_errors(h, self, ctx, field_path) ==
    Ctx_import_errors_from(h, self, ctx, field_path, 1)

\* self.build_child(val, is_step=is_step)
Ctx_build_child(h, self, val, is_step) ==
    [h EXCEPT !.contexts =
        Append(@, Context(val, Opt(self), is_step, h.contexts[self].message_values))]

\* bool(self)
Ctx_bool(h, self) == IsValidCtx(h.contexts[self])

\* ------------------------------------------ get_field_value_from_context

RECURSIVE parent_step(_)
parent_step(ctx) ==
    IF ctx.parent = Nil THEN Nil
    ELSE IF ctx.parent[1].is_step THEN ctx.parent
    ELSE parent_step(ctx.parent[1])

\* s.startswith(prefix)
StartsWith(s, prefix) == Len(s) >= Len(prefix) /\ SubSeq(s, 1, Len(prefix)) = prefix

\* the position of the first '.' of s, 0 when it has none
FirstDot(s) ==
    IF \E i \in 1..Len(s) : s[i] = "."
    THEN CHOOSE i \in 1..Len(s) : s[i] = "." /\ \A j \in 1..(i - 1) : s[j] # "."
    ELSE 0

\* s.split('.')
RECURSIVE SplitDots(_)
SplitDots(s) ==
    IF FirstDot(s) = 0 THEN <<s>>
    ELSE <<SubSeq(s, 1, FirstDot(s) - 1)>> \o SplitDots(SubSeq(s, FirstDot(s) + 1, Len(s)))

\* the decimal digits
IsDecimalChar(c) == \E d \in 1..10 : DigitChars[d] = c

\* a character str.isdigit accepts and int rejects: SUPERSCRIPT TWO
SuperscriptTwo == "^2"

\* str.isdigit accepts the decimal digits and the other digit characters
IsDigitChar(c) == IsDecimalChar(c) \/ c = SuperscriptTwo

\* s.isdigit()
isdigit(s) == Len(s) > 0 /\ \A i \in 1..Len(s) : IsDigitChar(s[i])

DigitValue(c) == (CHOOSE d \in 1..10 : DigitChars[d] = c) - 1

\* int(s) raises ValueError unless every character is a decimal digit
int_raises(s) == \E i \in 1..Len(s) : ~IsDecimalChar(s[i])

\* int(s) of a digit-only s on which it does not raise
RECURSIVE int(_)
int(s) ==
    IF Len(s) = 1 THEN DigitValue(s[1])
    ELSE 10 * int(SubSeq(s, 1, Len(s) - 1)) + DigitValue(s[Len(s)])

SameKey(a, b) ==
    /\ a.t = b.t
    /\ a.t = "str" => a.s = b.s
    /\ a.t = "int" => a.n = b.n

HasKey(d, key) == \E i \in 1..Len(d.entries) : SameKey(d.entries[i].k, key)

\* d[key] of a dict that has the key
Lookup(d, key) == d.entries[CHOOSE i \in 1..Len(d.entries) : SameKey(d.entries[i].k, key)].v

\* getattr(obj, name) of an object that has the attribute
GetAttr(obj, name) == obj.attrs[CHOOSE i \in 1..Len(obj.attrs) : obj.attrs[i].k = name].v

\* the segment reached a value
Reached(val) == [raised |-> FALSE, value |-> val]

\* the segment raised exc, which the loop does not handle itself
Raised(exc) == [raised |-> TRUE, exc |-> exc]

\* the value of a sequence at a segment: field_value[int(field)] of a
\* digit-only segment, field_value[field] (a TypeError) of any other
SequenceItem(items, field) ==
    IF ~isdigit(field) THEN Raised("TypeError")
    ELSE IF int_raises(field) THEN Raised("ValueError")
    ELSE IF int(field) >= Len(items) THEN Raised("IndexError")
    ELSE Reached(items[int(field) + 1])

\* faulty variant: a mapping is asked for the integer key first
ResolveSegment_int_key_first(field_value, field) ==
    CASE field_value.t = "list" -> SequenceItem(field_value.items, field)
      [] field_value.t = "str" ->
            SequenceItem([i \in 1..Len(field_value.s) |-> PyStr(<<field_value.s[i]>>)], field)
      [] field_value.t = "dict" ->
            IF isdigit(field) /\ ~int_raises(field) /\ HasKey(field_value, PyInt(int(field)))
            THEN Reached(Lookup(field_value, PyInt(int(field))))
            ELSE IF HasKey(field_value, PyStr(field))
            THEN Reached(Lookup(field_value, PyStr(field)))
            ELSE IF isdigit(field)
                 THEN IF int_raises(field) THEN Raised("ValueError") ELSE Raised("KeyError")
                 ELSE Reached(PyNone)
      [] field_value.t = "obj" ->
            IF \E i \in 1..Len(field_value.attrs) : field_value.attrs[i].k = field
            THEN Reached(GetAttr(field_value, field))
            ELSE Raised("AttributeError")
      [] OTHER -> Raised("AttributeError")

\* One iteration of the loop: one segment resolved against the current
\* value.  None and int values have none of the attributes looked up.
ResolveSegment(field_value, field) ==
    CASE field_value.t = "list" -> SequenceItem(field_value.items, field)
      [] field_value.t = "str" ->
            SequenceItem([i \in 1..Len(field_value.s) |-> PyStr(<<field_value.s[i]>>)], field)
      [] field_value.t = "dict" ->
            IF HasKey(field_value, PyStr(field))
            THEN Reached(Lookup(field_value, PyStr(field)))
            ELSE IF isdigit(field)
                 THEN IF int_raises(field) THEN Raised("ValueError")
                      ELSE IF HasKey(field_value, PyInt(int(field)))
                      THEN Reached(Lookup(field_value, PyInt(int(field))))
                      ELSE Raised("KeyError")
                 ELSE Reached(PyNone)
      [] field_value.t = "obj" ->
            IF \E i \in 1..Len(field_value.attrs) : field_value.attrs[i].k = field
            THEN Reached(GetAttr(field_value, field))
            ELSE Raised("AttributeError")
      [] OTHER -> Raised("AttributeError")

\* the exceptions caught around the loop
CaughtExceptions == {"IndexError", "AttributeError", "KeyError", "TypeError"}

\* the loop over the segments, inside the try
RECURSIVE ResolveSegments(_, _)
ResolveSegments(field_value, field_path) ==
    IF field_path = <<>> THEN field_value
    ELSE LET r == ResolveSegment(field_value, Head(field_path))
         IN  IF ~r.raised THEN ResolveSegments(r.value, Tail(field_path))
             ELSE IF r.exc \in CaughtExceptions THEN PyNone
             ELSE PyRaise(r.exc)

RootToken == <<"<", "r", "o", "o", "t", ">", ".">>

ContextToken == <<"<", "c", "o", "n", "t", "e", "x", "t", ">">>

RECURSIVE get_field_value_from_context(_, _)
RECURSIVE get_field_value_from_context_every_level(_, _)
RECURSIVE get_field_value_from_context_root_here(_, _)

\* faulty variant: a context that is not a step resolves the path itself
get_field_value_from_context_every_level(field_path, ctx) ==
    IF StartsWith(field_path, RootToken) /\ parent_step(ctx) # Nil
    THEN get_field_value_from_context_every_level(field_path, parent_step(ctx)[1])
    ELSE LET path == IF StartsWith(field_path, RootToken)
                     THEN SubSeq(field_path, FirstDot(field_path) + 1, Len(field_path))
                     ELSE field_path
             dot == FirstDot(path)
             first == IF dot = 0 THEN path ELSE SubSeq(path, 1, dot - 1)
             next_field_path == IF dot = 0 THEN <<>> ELSE SubSeq(path, dot + 1, Len(path))
         IN  IF first = ContextToken
             THEN IF parent_step(ctx) # Nil
                  THEN get_field_value_from_context_every_level(next_field_path,
                                                                parent_step(ctx)[1])
                  ELSE PyNone
             ELSE IF ctx.value.t = "none" THEN PyNone
             ELSE ResolveSegments(ctx.value,
                                  <<first>> \o (IF Len(next_field_path) > 0
                                                THEN SplitDots(next_field_path) ELSE <<>>))

\* faulty variant: '<root>.' is dropped at the first step context met
get_field_value_from_context_root_here(field_path, ctx) ==
    IF ~ctx.is_step
    THEN IF parent_step(ctx) # Nil
         THEN get_field_value_from_context_root_here(field_path, parent_step(ctx)[1])
         ELSE PyNone
    ELSE LET path == IF StartsWith(field_path, RootToken)
                     THEN SubSeq(field_path, FirstDot(field_path) + 1, Len(field_path))
                     ELSE field_path
             dot == FirstDot(path)
             first == IF dot = 0 THEN path ELSE SubSeq(path, 1, dot - 1)
             next_field_path == IF dot = 0 THEN <<>> ELSE SubSeq(path, dot + 1, Len(path))
         IN  IF first = ContextToken
             THEN IF parent_step(ctx) # Nil
                  THEN get_field_value_from_context_root_here(next_field_path,
                                                              parent_step(ctx)[1])
                  ELSE PyNone
             ELSE IF ctx.value.t = "none" THEN PyNone
             ELSE ResolveSegments(ctx.value,
                                  <<first>> \o (IF Len(next_field_path) > 0
                                                THEN SplitDots(next_field_path) ELSE <<>>))

get_field_value_from_context(field_path, ctx) ==
    IF ~ctx.is_step
    THEN IF parent_step(ctx) # Nil
         THEN get_field_value_from_context(field_path, parent_step(ctx)[1])
         ELSE PyNone
    ELSE IF StartsWith(field_path, RootToken) /\ parent_step(ctx) # Nil
         THEN get_field_value_from_context(field_path, parent_step(ctx)[1])
    ELSE LET path == IF StartsWith(field_path, RootToken)
                     THEN SubSeq(field_path, FirstDot(field_path) + 1, Len(field_path))
                     ELSE field_path
             dot == FirstDot(path)
             first == IF dot = 0 THEN path ELSE SubSeq(path, 1, dot - 1)
             next_field_path == IF dot = 0 THEN <<>> ELSE SubSeq(path, dot + 1, Len(path))
         IN  IF first = ContextToken
             THEN IF parent_step(ctx) # Nil
                  THEN get_field_value_from_context(next_field_path, parent_step(ctx)[1])
                  ELSE PyNone
             ELSE IF ctx.value.t = "none" THEN PyNone
             ELSE ResolveSegments(ctx.value,
                                  <<first>> \o (IF Len(next_field_path) > 0
                                                THEN SplitDots(next_field_path) ELSE <<>>))

get_field_value(self, field_path) == get_field_value_from_context(field_path, self)

\* ------------------------------------------------------------- validators

Length(min, max) == [kind |-> "Length", min |-> min, max |-> max]

NotNone == [kind |-> "NotNone"]

Chain(validators, stop_on_fail) ==
    [kind |-> "Chain", validators |-> validators, stop_on_fail |-> stop_on_fail]

Some(validators) == [kind |-> "Some", validators |-> validators]

AllItems(v, stop_on_fail) ==
    [kind |-> "AllItems", validator |-> v, stop_on_fail |-> stop_on_fail]

ItemLimitedOccurrences(min_occ, max_occ) ==
    [kind |-> "ItemLimitedOccurrences", min_occ |-> min_occ, max_occ |-> max_occ]

\* min and max are -1 when unset
SomeItems(min, max, v, stop_on_fail) ==
    [kind |-> "SomeItems", min |-> min, max |-> max, validator |-> v,
     stop_on_fail |-> stop_on_fail]

\* SomeItemsMixin.__init__: the two assertions on min and max
SomeItems_init_ok(min, max) ==
    /\ min # -1 \/ max # -1
    /\ max = -1 \/ min <= max

\* field_validator is Nil or Opt(validator)
IfField(v, field_name, field_validator, run_if_none, add_check_info) ==
    [kind |-> "IfField", validator |-> v, field_name |-> field_name,
     field_validator |-> field_validator, run_if_none |-> run_if_none,
     add_check_info |-> add_check_info]

\* spec is <<[name |-> key, validator |-> v], ..>> in insertion order;
\* key_validator and value_validators are Nil or Opt(validator)
DictValidate(spec, stop_on_fail, key_validator, value_validators) ==
    [kind |-> "DictValidate", spec |-> spec, stop_on_fail |-> stop_on_fail,
     key_validator |-> key_validator, value_validators |-> value_validators]

\* modelclass is the name of __modelclass__
ModelValidate(modelclass, spec, stop_on_fail, key_validator, value_validators) ==
    [kind |-> "ModelValidate", modelclass |-> modelclass, spec |-> spec,
     stop_on_fail |-> stop_on_fail,
     key_validator |-> key_validator, value_validators |-> value_validators]

\* factory is the name of the callable given as validator, from a context
\* to a validator: it is kept and not called
Deferred(factory) == [kind |-> "Deferred", validator |-> factory]

\* the calls of the factory that DeferredMixin.__init__ makes: none
Deferred_init_calls(factory) == <<>>

\* empty_validator is Nil or Opt(validator): empty_validator or NotNone()
Required(validators, stop_on_fail, empty_validator) ==
    [kind |-> "Required", validators |-> validators, stop_on_fail |-> stop_on_fail,
     empty_validator |-> IF empty_validator = Nil THEN NotNone ELSE empty_validator[1]]

Optional(validators, stop_on_fail, empty_validator) ==
    [kind |-> "Optional", validators |-> validators, stop_on_fail |-> stop_on_fail,
     empty_validator |-> IF empty_validator = Nil THEN NotNone ELSE empty_validator[1]]

\* Error codes and message templates of the validators
TOO_LONG == "tooLong"

TOO_SHORT == "tooShort"

INVALID_TYPE == "notLength"

NOT_NONE == "notNone"

TOO_MANY_VALID_ITEMS == "tooManyValidItems"

TOO_FEW_VALID_ITEMS == "tooFewValidItems"

TOO_MANY_ITEM_OCCURRENCES == "tooManyItemOccurrences"

TOO_FEW_ITEM_OCCURRENCES == "tooFewItemOccurrences"

NEEDS_VALIDATE == "needsValidate"

INVALID_KEY == "invalidKey"

NOT_DICT == "notDict"

REQUIRED == "required"

NOT_MODEL == "notModel"

error_messages(code) ==
    CASE code = TOO_LONG -> "'$value' is more than $max unit length"
      [] code = TOO_SHORT -> "'$value' is less than $min unit length"
      [] code = INVALID_TYPE -> "'$value' has no length"
      [] code = NOT_NONE -> "Value must not be None"
      [] code = TOO_MANY_VALID_ITEMS -> "Too many items pass validation"
      [] code = TOO_FEW_VALID_ITEMS -> "Too few items pass validation"
      [] code = TOO_MANY_ITEM_OCCURRENCES ->
            "Item '$value' is repeated to many times. Limit is $max_occ."
      [] code = TOO_FEW_ITEM_OCCURRENCES ->
            "Item '$value' is not enough repeated. Limit is $min_occ."
      [] code = NEEDS_VALIDATE ->
            "Some validate error due to field '$field_name' has value '$field_value'."
      [] code = INVALID_KEY -> "'$value' is not a valid key"
      [] code = NOT_DICT -> "'$value' is not a dictionary"
      [] code = REQUIRED -> "Value is required and can not be empty"
      [] code = NOT_MODEL -> "'$value' is not an instance of $model"
      [] OTHER -> code

\* The static substitution values a validator hands to its contexts
message_values(self) ==
    CASE self.kind \in {"Length", "SomeItems"} ->
            <<[k |-> "min", v |-> PyInt(self.min)], [k |-> "max", v |-> PyInt(self.max)]>>
      [] self.kind = "IfField" -> <<[k |-> "field_name", v |-> PyStr(self.field_name)]>>
      [] self.kind = "ItemLimitedOccurrences" ->
            <<[k |-> "min_occ", v |-> PyInt(self.min_occ)],
              [k |-> "max_occ", v |-> PyInt(self.max_occ)]>>
      [] OTHER -> <<>>

\* The subclasses of ComplexValidator
IsComplexValidator(self) ==
    self.kind \in {"AllItems", "SomeItems", "DictValidate", "ModelValidate"}

\* BaseValidator._build_context: the context of a validator is not a step
BaseValidator_build_context(self, val, parent) ==
    Context(val, parent, FALSE, message_values(self))

\* ComplexValidatorMixin._build_context: the context is a step
ComplexValidator_build_context(self, val, parent) ==
    Context(val, parent, TRUE, message_values(self))

\* self._build_context, by the class of self
_build_context(self, val, parent) ==
    IF IsComplexValidator(self) THEN ComplexValidator_build_context(self, val, parent)
    ELSE BaseValidator_build_context(self, val, parent)

\* BaseValidator.error: one error, of the validator's template, on ctx
validator_error(self, error_code, ctx, kwargs) ==
    error(ctx, error_code, error_messages(error_code), kwargs)

\* len(value); -1 stands for the TypeError of a value that has no length
PyLen(val) ==
    CASE val.t = "str" -> Len(val.s)
      [] val.t = "list" -> Len(val.items)
      [] val.t = "dict" -> Len(val.entries)
      [] OTHER -> -1

Length_internal_is_valid(self, val, ctx) ==
    LET length == PyLen(val)
    IN  IF length = -1 THEN validator_error(self, INVALID_TYPE, ctx, <<>>)
        ELSE IF length < self.min THEN validator_error(self, TOO_SHORT, ctx, <<>>)
        ELSE IF self.max # -1 /\ length > self.max
             THEN validator_error(self, TOO_LONG, ctx, <<>>)
        ELSE ctx

NotNone_internal_is_valid(self, val, ctx) ==
    IF val.t = "none" THEN validator_error(self, NOT_NONE, ctx, <<>>) ELSE ctx

\* An evaluation returns the context it built and the calls of is_valid it
\* made, in order: [ctx |-> Context, trace |-> <<[validator, value], ..>>]
RECURSIVE is_valid(_, _, _)
RECURSIVE Chain_loop(_, _, _, _, _)
RECURSIVE Some_loop(_, _, _, _, _, _)
RECURSIVE AllItems_loop(_, _, _, _, _)
RECURSIVE SomeItems_loop(_, _, _, _, _, _, _, _)
RECURSIVE validate_keys_loop(_, _, _, _, _)
RECURSIVE validate_keys_loop_every_key(_, _, _, _, _)
RECURSIVE fields_loop(_, _, _, _, _)
RECURSIVE Chain_loop_no_break(_, _, _, _, _)
RECURSIVE Some_loop_keep_errors(_, _, _, _, _, _)
RECURSIVE AllItems_loop_no_break(_, _, _, _, _)
RECURSIVE SomeItems_loop_no_flag(_, _, _, _, _, _, _, _)
RECURSIVE fields_loop_no_return(_, _, _, _, _)

\* _iter_values: the (idx, val) pairs of a container, in iteration order
_iter_values(val) ==
    CASE val.t = "list" -> [i \in 1..Len(val.items) |-> [idx |-> PyInt(i - 1), val |-> val.items[i]]]
      [] val.t = "dict" -> [i \in 1..Len(val.entries) |->
                                [idx |-> val.entries[i].k, val |-> val.entries[i].v]]

\* for idx, val in self._iter_values(value): the exception the statement
\* raises on a value that _iter_values hands back as it is, Nil where it
\* raises none (None and numbers are not iterable, a character of a string
\* does not unpack into idx and val, an empty string has no character)
for_raises(val) ==
    CASE val.t \in {"list", "dict"} -> Nil
      [] val.t = "str" -> IF Len(val.s) = 0 THEN Nil ELSE Opt("ValueError")
      [] OTHER -> Opt("TypeError")

\* faulty variant: stop_on_fail is ignored
Chain_loop_no_break(self, val, ctx, trace, i) ==
    IF i > Len(self.validators) THEN [ctx |-> ctx, trace |-> trace]
    ELSE LET child == is_valid(self.validators[i], val, Opt(ctx))
         IN  Chain_loop_no_break(self, val, import_errors(ctx, child.ctx, Nil),
                                 trace \o child.trace, i + 1)

\* Chain._internal_is_valid: the loop from child i on
Chain_loop(self, val, ctx, trace, i) ==
    IF i > Len(self.validators) THEN [ctx |-> ctx, trace |-> trace]
    ELSE LET child == is_valid(self.validators[i], val, Opt(ctx))
             ctx2 == import_errors(ctx, child.ctx, Nil)
             trace2 == trace \o child.trace
         IN  IF ~IsValidCtx(child.ctx) /\ self.stop_on_fail
             THEN [ctx |-> ctx2, trace |-> trace2]
             ELSE Chain_loop(self, val, ctx2, trace2, i + 1)

Chain_internal_is_valid(self, val, ctx) == Chain_loop(self, val, ctx, <<>>, 1)

s_int_field == <<"i", "n", "t", "_", "f", "i", "e", "l", "d">>

s_model_field == <<"m", "o", "d", "e", "l", "_", "f", "i", "e", "l", "d">>

\* class Validator(ModelValidate) of a self-referential schema: its optional
\* field holds a Deferred whose factory builds Validator()
RecordValidator ==
    ModelValidate("Model",
                  <<[name |-> PyStr(s_int_field),
                     validator |-> Required(<<Length(1, 4)>>, TRUE, Nil)],
                    [name |-> PyStr(s_model_field),
                     validator |-> Optional(<<Deferred("Validator")>>, TRUE, Nil)]>>,
                  TRUE, Nil, Nil)

\* the factories by name: lambda ctx: Validator(), lambda ctx: Length(min=1, max=4)
Factory(name, ctx) ==
    IF name = "Validator" THEN RecordValidator ELSE Length(1, 4)

\* the record of one call of a factory, kept among the calls of is_valid
FactoryCall(self, ctx) ==
    [validator |-> [kind |-> "build_validator", validator |-> self.validator],
     value |-> ctx.value]

\* DeferredMixin.build_validator
build_validator(self, ctx) == Factory(self.validator, ctx)

\* faulty variant: the validator built is not kept, the factory is called
\* again for the second use
Deferred_internal_is_valid_built_twice(self, val, ctx) ==
    LET child == is_valid(build_validator(self, ctx), val, Opt(ctx))
    IN  [ctx |-> import_errors(ctx, child.ctx, Nil),
         trace |-> <<FactoryCall(self, ctx), FactoryCall(self, ctx)>> \o child.trace]

Deferred_internal_is_valid(self, val, ctx) ==
    LET child == is_valid(build_validator(self, ctx), val, Opt(ctx))
    IN  [ctx |-> import_errors(ctx, child.ctx, Nil),
         trace |-> <<FactoryCall(self, ctx)>> \o child.trace]

\* faulty variant: the errors of empty_validator are reported with REQUIRED
Required_internal_is_valid_with_detail(self, val, ctx) ==
    LET empty == is_valid(self.empty_validator, val, Opt(ctx))
    IN  IF ~IsValidCtx(empty.ctx)
        THEN [ctx |-> import_errors(validator_error(self, REQUIRED, ctx, <<>>),
                                    empty.ctx, Nil),
              trace |-> empty.trace]
        ELSE LET r == Chain_internal_is_valid(self, val, ctx)
             IN  [ctx |-> r.ctx, trace |-> empty.trace \o r.trace]

Required_internal_is_valid(self, val, ctx) ==
    LET empty == is_valid(self.empty_validator, val, Opt(ctx))
    IN  IF ~IsValidCtx(empty.ctx)
        THEN [ctx |-> validator_error(self, REQUIRED, ctx, <<>>), trace |-> empty.trace]
        ELSE LET r == Chain_internal_is_valid(self, val, ctx)
             IN  [ctx |-> r.ctx, trace |-> empty.trace \o r.trace]

\* faulty variant: the wrapped validators run on an empty value too
Optional_internal_is_valid_eager(self, val, ctx) ==
    LET empty == is_valid(self.empty_validator, val, Opt(ctx))
        r == Chain_internal_is_valid(self, val, ctx)
    IN  [ctx |-> r.ctx, trace |-> empty.trace \o r.trace]

Optional_internal_is_valid(self, val, ctx) ==
    LET empty == is_valid(self.empty_validator, val, Opt(ctx))
    IN  IF ~IsValidCtx(empty.ctx)
        THEN [ctx |-> ctx, trace |-> empty.trace]
        ELSE LET r == Chain_internal_is_valid(self, val, ctx)
             IN  [ctx |-> r.ctx, trace |-> empty.trace \o r.trace]

RECURSIVE import_all(_, _, _)
import_all(ctx, child_ctxs, i) ==
    IF i > Len(child_ctxs) THEN ctx
    ELSE import_all(import_errors(ctx, child_ctxs[i], Nil), child_ctxs, i + 1)

\* faulty variant: an accepting child does not discard the earlier children's errors
Some_loop_keep_errors(self, val, ctx, trace, child_ctxs, i) ==
    IF i > Len(self.validators)
    THEN [ctx |-> import_all(ctx, child_ctxs, 1), trace |-> trace]
    ELSE LET child == is_valid(self.validators[i], val, Opt(ctx))
             trace2 == trace \o child.trace
         IN  IF IsValidCtx(child.ctx)
             THEN [ctx |-> import_all(ctx, child_ctxs, 1), trace |-> trace2]
             ELSE Some_loop_keep_errors(self, val, ctx, trace2,
                                        Append(child_ctxs, child.ctx), i + 1)

\* Some._internal_is_valid: the loop from child i on
Some_loop(self, val, ctx, trace, child_ctxs, i) ==
    IF i > Len(self.validators)
    THEN [ctx |-> import_all(ctx, child_ctxs, 1), trace |-> trace]
    ELSE LET child == is_valid(self.validators[i], val, Opt(ctx))
             trace2 == trace \o child.trace
         IN  IF IsValidCtx(child.ctx) THEN [ctx |-> ctx, trace |-> trace2]
             ELSE Some_loop(self, val, ctx, trace2, Append(child_ctxs, child.ctx), i + 1)

Some_internal_is_valid(self, val, ctx) == Some_loop(self, val, ctx, <<>>, <<>>, 1)

\* faulty variant: stop_on_fail is ignored
AllItems_loop_no_break(self, val, ctx, trace, i) ==
    LET items == _iter_values(val)
    IN  IF i > Len(items) THEN [ctx |-> ctx, trace |-> trace]
        ELSE LET child == is_valid(self.validator, items[i].val, Opt(ctx))
             IN  AllItems_loop_no_break(self, val,
                     IF ~IsValidCtx(child.ctx)
                     THEN import_errors(ctx, child.ctx, Opt(str(items[i].idx))) ELSE ctx,
                     trace \o child.trace, i + 1)

\* AllItems._internal_is_valid: the loop from item i on
AllItems_loop(self, val, ctx, trace, i) ==
    LET items == _iter_values(val)
    IN  IF i > Len(items) THEN [ctx |-> ctx, trace |-> trace]
        ELSE LET child == is_valid(self.validator, items[i].val, Opt(ctx))
                 trace2 == trace \o child.trace
             IN  IF ~IsValidCtx(child.ctx)
                 THEN LET ctx2 == import_errors(ctx, child.ctx, Opt(str(items[i].idx)))
                      IN  IF self.stop_on_fail THEN [ctx |-> ctx2, trace |-> trace2]
                          ELSE AllItems_loop(self, val, ctx2, trace2, i + 1)
                 ELSE AllItems_loop(self, val, ctx, trace2, i + 1)

AllItems_internal_is_valid(self, val, ctx) == AllItems_loop(self, val, ctx, <<>>, 1)

\* faulty variant: the items' errors are imported whatever the verdict
SomeItems_after_loop_always_import(self, ctx, tmp_ctx, trace, item_pass) ==
    LET ctx2 == IF self.min # -1 /\ item_pass < self.min
                THEN validator_error(self, TOO_FEW_VALID_ITEMS, ctx, <<>>)
                ELSE ctx
    IN  [ctx |-> import_errors(ctx2, tmp_ctx, Nil), trace |-> trace]

\* faulty variant: a count equal to min is too few
SomeItems_after_loop_off_by_one(self, ctx, tmp_ctx, trace, item_pass) ==
    LET ctx2 == IF self.min # -1 /\ item_pass <= self.min
                THEN validator_error(self, TOO_FEW_VALID_ITEMS, ctx, <<>>)
                ELSE ctx
    IN  [ctx |-> IF ~IsValidCtx(ctx2) THEN import_errors(ctx2, tmp_ctx, Nil) ELSE ctx2,
         trace |-> trace]

\* SomeItems._internal_is_valid: the loop from item i on, then the code
\* after the loop
SomeItems_after_loop(self, ctx, tmp_ctx, trace, item_pass) ==
    LET ctx2 == IF self.min # -1 /\ item_pass < self.min
                THEN validator_error(self, TOO_FEW_VALID_ITEMS, ctx, <<>>)
                ELSE ctx
    IN  [ctx |-> IF ~IsValidCtx(ctx2) THEN import_errors(ctx2, tmp_ctx, Nil) ELSE ctx2,
         trace |-> trace]

\* faulty variant: already_too_many is not consulted
SomeItems_loop_no_flag(self, val, ctx, tmp_ctx, trace, item_pass, already_too_many, i) ==
    LET items == _iter_values(val)
    IN  IF i > Len(items) THEN SomeItems_after_loop(self, ctx, tmp_ctx, trace, item_pass)
        ELSE LET child == is_valid(self.validator, items[i].val, Opt(tmp_ctx))
                 trace2 == trace \o child.trace
                 tmp2 == IF ~IsValidCtx(child.ctx)
                         THEN import_errors(tmp_ctx, child.ctx, Opt(str(items[i].idx)))
                         ELSE tmp_ctx
                 pass2 == IF ~IsValidCtx(child.ctx) THEN item_pass ELSE item_pass + 1
             IN  IF self.max # -1 /\ pass2 > self.max
                 THEN LET ctx2 == validator_error(self, TOO_MANY_VALID_ITEMS, ctx, <<>>)
                      IN  IF self.stop_on_fail
                          THEN SomeItems_after_loop(self, ctx2, tmp2, trace2, pass2)
                          ELSE SomeItems_loop_no_flag(self, val, ctx2, tmp2, trace2, pass2,
                                                      TRUE, i + 1)
                 ELSE SomeItems_loop_no_flag(self, val, ctx, tmp2, trace2, pass2,
                                             already_too_many, i + 1)

SomeItems_loop(self, val, ctx, tmp_ctx, trace, item_pass, already_too_many, i) ==
    LET items == _iter_values(val)
    IN  IF i > Len(items) THEN SomeItems_after_loop(self, ctx, tmp_ctx, trace, item_pass)
        ELSE LET child == is_valid(self.validator, items[i].val, Opt(tmp_ctx))
                 trace2 == trace \o child.trace
                 tmp2 == IF ~IsValidCtx(child.ctx)
                         THEN import_errors(tmp_ctx, child.ctx, Opt(str(items[i].idx)))
                         ELSE tmp_ctx
                 pass2 == IF ~IsValidCtx(child.ctx) THEN item_pass ELSE item_pass + 1
             IN  IF ~already_too_many /\ self.max # -1 /\ pass2 > self.max
                 THEN LET ctx2 == validator_error(self, TOO_MANY_VALID_ITEMS, ctx, <<>>)
                      IN  IF self.stop_on_fail
                          THEN SomeItems_after_loop(self, ctx2, tmp2, trace2, pass2)
                          ELSE SomeItems_loop(self, val, ctx2, tmp2, trace2, pass2, TRUE, i + 1)
                 ELSE SomeItems_loop(self, val, ctx, tmp2, trace2, pass2, already_too_many, i + 1)

SomeItems_internal_is_valid(self, val, ctx) ==
    SomeItems_loop(self, val, ctx, Context(PyNone, Opt(ctx), FALSE, <<>>), <<>>, 0, FALSE, 1)

\* IfField._internal_is_valid from the guard on, field_value looked up
IfField_on_field_value(self, val, ctx, field_value) ==
    IF ~self.run_if_none /\ field_value.t = "none" THEN [ctx |-> ctx, trace |-> <<>>]
    ELSE LET field_valid == IF self.field_validator # Nil
                            THEN is_valid(self.field_validator[1], field_value, Opt(ctx))
                            ELSE [ctx |-> ctx, trace |-> <<>>]
         IN  IF self.field_validator # Nil /\ ~IsValidCtx(field_valid.ctx)
             THEN [ctx |-> ctx, trace |-> field_valid.trace]
             ELSE LET child == is_valid(self.validator, val, Opt(ctx))
                      trace2 == field_valid.trace \o child.trace
                  IN  IF ~IsValidCtx(child.ctx)
                      THEN LET ctx2 == import_errors(ctx, child.ctx, Nil)
                           IN  [ctx |-> IF self.add_check_info
                                        THEN validator_error(self, NEEDS_VALIDATE, ctx2,
                                                 <<[k |-> "field_value", v |-> field_value]>>)
                                        ELSE ctx2,
                                trace |-> trace2]
                      ELSE [ctx |-> ctx, trace |-> trace2]

\* faulty variant: a rejecting guard is reported
IfField_guard_reported(self, val, ctx) ==
    LET field_value == get_field_value(ctx, self.field_name)
    IN  IF ~self.run_if_none /\ field_value.t = "none" THEN [ctx |-> ctx, trace |-> <<>>]
        ELSE LET field_valid == IF self.field_validator # Nil
                                THEN is_valid(self.field_validator[1], field_value, Opt(ctx))
                                ELSE [ctx |-> ctx, trace |-> <<>>]
             IN  IF self.field_validator # Nil /\ ~IsValidCtx(field_valid.ctx)
                 THEN [ctx |-> import_errors(ctx, field_valid.ctx, Nil),
                       trace |-> field_valid.trace]
                 ELSE LET child == is_valid(self.validator, val, Opt(ctx))
                          trace2 == field_valid.trace \o child.trace
                      IN  IF ~IsValidCtx(child.ctx)
                          THEN LET ctx2 == import_errors(ctx, child.ctx, Nil)
                               IN  [ctx |-> IF self.add_check_info
                                            THEN validator_error(self, NEEDS_VALIDATE, ctx2,
                                                     <<[k |-> "field_value", v |-> field_value]>>)
                                            ELSE ctx2,
                                    trace |-> trace2]
                          ELSE [ctx |-> ctx, trace |-> trace2]

\* faulty variant: the target validator is given the field value
IfField_target_on_field(self, val, ctx) ==
    LET field_value == get_field_value(ctx, self.field_name)
    IN  IF ~self.run_if_none /\ field_value.t = "none" THEN [ctx |-> ctx, trace |-> <<>>]
        ELSE LET field_valid == IF self.field_validator # Nil
                                THEN is_valid(self.field_validator[1], field_value, Opt(ctx))
                                ELSE [ctx |-> ctx, trace |-> <<>>]
             IN  IF self.field_validator # Nil /\ ~IsValidCtx(field_valid.ctx)
                 THEN [ctx |-> ctx, trace |-> field_valid.trace]
                 ELSE LET child == is_valid(self.validator, field_value, Opt(ctx))
                          trace2 == field_valid.trace \o child.trace
                      IN  IF ~IsValidCtx(child.ctx)
                          THEN LET ctx2 == import_errors(ctx, child.ctx, Nil)
                               IN  [ctx |-> IF self.add_check_info
                                            THEN validator_error(self, NEEDS_VALIDATE, ctx2,
                                                     <<[k |-> "field_value", v |-> field_value]>>)
                                            ELSE ctx2,
                                    trace |-> trace2]
                          ELSE [ctx |-> ctx, trace |-> trace2]

IfField_internal_is_valid(self, val, ctx) ==
    IfField_on_field_value(self, val, ctx, get_field_value(ctx, self.field_name))

\* k in self.spec
InSpec(self, key) == \E i \in 1..Len(self.spec) : SameKey(self.spec[i].name, key)

\* DictValidateMixin.get_field_value: value.get(field_name, None)
Dict_get_field_value(field_name, val) ==
    IF HasKey(val, field_name) THEN Lookup(val, field_name) ELSE PyNone

\* DictValidateMixin._get_keys: value.keys()
_get_keys(val) == [i \in 1..Len(val.entries) |-> val.entries[i].k]

\* faulty variant: the keys the spec names are checked too
validate_keys_loop_every_key(self, keys, ctx, trace, i) ==
    IF i > Len(keys) THEN [ctx |-> ctx, trace |-> trace]
    ELSE LET key == is_valid(self.key_validator[1], keys[i], Opt(ctx))
             trace2 == trace \o key.trace
         IN  IF IsValidCtx(key.ctx)
             THEN validate_keys_loop_every_key(self, keys, ctx, trace2, i + 1)
             ELSE LET child_ctx == validator_error(self, INVALID_KEY,
                                                   build_child(ctx, keys[i]), <<>>)
                      ctx2 == import_errors(import_errors(ctx, child_ctx, Nil),
                                            key.ctx, Opt(keys[i].s))
                  IN  IF self.stop_on_fail THEN [ctx |-> ctx2, trace |-> trace2]
                      ELSE validate_keys_loop_every_key(self, keys, ctx2, trace2, i + 1)

\* BaseSpec._internal_validate_keys: the loop from key i on
validate_keys_loop(self, keys, ctx, trace, i) ==
    IF i > Len(keys) THEN [ctx |-> ctx, trace |-> trace]
    ELSE IF InSpec(self, keys[i]) THEN validate_keys_loop(self, keys, ctx, trace, i + 1)
    ELSE LET key == is_valid(self.key_validator[1], keys[i], Opt(ctx))
             trace2 == trace \o key.trace
         IN  IF IsValidCtx(key.ctx) THEN validate_keys_loop(self, keys, ctx, trace2, i + 1)
             ELSE LET child_ctx == validator_error(self, INVALID_KEY,
                                                   build_child(ctx, keys[i]), <<>>)
                      ctx2 == import_errors(import_errors(ctx, child_ctx, Nil),
                                            key.ctx, Opt(keys[i].s))
                  IN  IF self.stop_on_fail THEN [ctx |-> ctx2, trace |-> trace2]
                      ELSE validate_keys_loop(self, keys, ctx2, trace2, i + 1)

_internal_validate_keys(self, keys, ctx) == validate_keys_loop(self, keys, ctx, <<>>, 1)

\* the synthetic mapping of the entries whose keys are not in the spec
RECURSIVE temp_entries(_, _, _)
temp_entries(self, val, i) ==
    IF i > Len(val.entries) THEN <<>>
    ELSE (IF InSpec(self, val.entries[i].k) THEN <<>>
          ELSE <<[k |-> val.entries[i].k,
                  v |-> Dict_get_field_value(val.entries[i].k, val)]>>)
         \o temp_entries(self, val, i + 1)

\* faulty variant: the catch-all validator is given the whole value
_internal_validate_values_whole_value(self, val, ctx, trace) ==
    LET child == is_valid(self.value_validators[1], val, Opt(ctx))
    IN  [ctx |-> import_errors(ctx, child.ctx, Nil), trace |-> trace \o child.trace]

_internal_validate_values(self, val, ctx, trace) ==
    LET child == is_valid(self.value_validators[1], PyDict(temp_entries(self, val, 1)), Opt(ctx))
    IN  [ctx |-> import_errors(ctx, child.ctx, Nil), trace |-> trace \o child.trace]

\* BaseSpec._internal_is_valid from the catch-all phase on
values_phase(self, val, ctx, trace) ==
    IF self.value_validators # Nil THEN _internal_validate_values(self, val, ctx, trace)
    ELSE [ctx |-> ctx, trace |-> trace]

\* faulty variant: a rejecting field does not end the evaluation
fields_loop_no_return(self, val, ctx, trace, i) ==
    IF i > Len(self.spec) THEN values_phase(self, val, ctx, trace)
    ELSE LET field_value == Dict_get_field_value(self.spec[i].name, val)
             child == is_valid(self.spec[i].validator, field_value, Opt(ctx))
         IN  fields_loop_no_return(self, val,
                                   import_errors(ctx, child.ctx, Opt(self.spec[i].name.s)),
                                   trace \o child.trace, i + 1)

\* BaseSpec._internal_is_valid: the loop over the spec from entry i on
fields_loop(self, val, ctx, trace, i) ==
    IF i > Len(self.spec) THEN values_phase(self, val, ctx, trace)
    ELSE LET field_value == Dict_get_field_value(self.spec[i].name, val)
             child == is_valid(self.spec[i].validator, field_value, Opt(ctx))
             ctx2 == import_errors(ctx, child.ctx, Opt(self.spec[i].name.s))
             trace2 == trace \o child.trace
         IN  IF ~IsValidCtx(ctx2) /\ self.stop_on_fail THEN [ctx |-> ctx2, trace |-> trace2]
             ELSE fields_loop(self, val, ctx2, trace2, i + 1)

BaseSpec_internal_is_valid(self, val, ctx) ==
    LET keys == IF self.key_validator # Nil
                THEN _internal_validate_keys(self, _get_keys(val), ctx)
                ELSE [ctx |-> ctx, trace |-> <<>>]
    IN  IF self.key_validator # Nil /\ ~IsValidCtx(keys.ctx) /\ self.stop_on_fail
        THEN keys
        ELSE fields_loop(self, val, keys.ctx, keys.trace, 1)

\* faulty variant: after the type error the validation goes on, every field
\* read as None
DictValidate_internal_is_valid_no_return(self, val, ctx) ==
    IF val.t # "dict"
    THEN BaseSpec_internal_is_valid(self, PyDict(<<>>),
                                    validator_error(self, NOT_DICT, ctx, <<>>))
    ELSE BaseSpec_internal_is_valid(self, val, ctx)

DictValidate_internal_is_valid(self, val, ctx) ==
    IF val.t # "dict"
    THEN [ctx |-> validator_error(self, NOT_DICT, ctx, <<>>), trace |-> <<>>]
    ELSE BaseSpec_internal_is_valid(self, val, ctx)

\* isinstance(value, self.__modelclass__): every model class derives from
\* BaseModel, and the named classes do not derive from each other
isinstance(val, modelclass) ==
    val.t = "model" /\ (modelclass = "BaseModel" \/ val.class = modelclass)

\* ModelValidateMixin.get_field_value and _get_keys read a model as the
\* mapping of its set fields: an unset field reads as None
Model_fields(val) == PyDict(val.entries)

ModelValidate_internal_is_valid(self, val, ctx) ==
    IF ~isinstance(val, self.modelclass)
    THEN [ctx |-> validator_error(self, NOT_MODEL, ctx,
                                  <<[k |-> "model", v |-> PyStr(<<self.modelclass>>)]>>),
          trace |-> <<>>]
    ELSE BaseSpec_internal_is_valid(self, Model_fields(val), ctx)

\* add_occurrence(val, counter): the counter is the list of its entries
\* [k |-> item, v |-> occurrences], in order of first occurrence
add_occurrence(val, counter) ==
    IF \E n \in 1..Len(counter) : counter[n].k = val
    THEN [n \in 1..Len(counter) |->
              IF counter[n].k = val THEN [k |-> val, v |-> counter[n].v + 1] ELSE counter[n]]
    ELSE Append(counter, [k |-> val, v |-> 1])

\* counter[val]
Occurrences(counter, val) == counter[CHOOSE n \in 1..Len(counter) : counter[n].k = val].v

\* the error of an item: registered on a child context of the item, imported
\* with no field path
occurrence_error(self, ctx, error_code, val) ==
    import_errors(ctx, validator_error(self, error_code, build_child(ctx, val), <<>>), Nil)

RECURSIVE too_few_loop(_, _, _, _)
\* ItemLimitedOccurrences._internal_is_valid: the loop over the counter
too_few_loop(self, counter, ctx, n) ==
    IF n > Len(counter) THEN ctx
    ELSE IF counter[n].v < self.min_occ
    THEN occurrence_error(self, ctx, TOO_FEW_ITEM_OCCURRENCES, counter[n].k)
    ELSE too_few_loop(self, counter, ctx, n + 1)

RECURSIVE occurrences_loop_no_return(_, _, _, _, _)
\* faulty variant: an item repeated too often does not end the evaluation
occurrences_loop_no_return(self, items, counter, ctx, i) ==
    IF i > Len(items) THEN too_few_loop(self, counter, ctx, 1)
    ELSE IF Occurrences(add_occurrence(items[i].val, counter), items[i].val) > self.max_occ
    THEN occurrences_loop_no_return(
             self, items, add_occurrence(items[i].val, counter),
             occurrence_error(self, ctx, TOO_MANY_ITEM_OCCURRENCES, items[i].val), i + 1)
    ELSE occurrences_loop_no_return(self, items, add_occurrence(items[i].val, counter),
                                    ctx, i + 1)

RECURSIVE occurrences_loop(_, _, _, _, _)
\* ItemLimitedOccurrences._internal_is_valid: the loop over the items from
\* item i on; _get_checking_value hands back the item
occurrences_loop(self, items, counter, ctx, i) ==
    IF i > Len(items) THEN too_few_loop(self, counter, ctx, 1)
    ELSE IF Occurrences(add_occurrence(items[i].val, counter), items[i].val) > self.max_occ
    THEN occurrence_error(self, ctx, TOO_MANY_ITEM_OCCURRENCES, items[i].val)
    ELSE occurrences_loop(self, items, add_occurrence(items[i].val, counter), ctx, i + 1)

ItemLimitedOccurrences_internal_is_valid(self, val, ctx) ==
    [ctx |-> occurrences_loop(self, _iter_values(val), <<>>, ctx, 1), trace |-> <<>>]

_internal_is_valid(self, val, ctx) ==
    CASE self.kind = "Length" -> [ctx |-> Length_internal_is_valid(self, val, ctx), trace |-> <<>>]
      [] self.kind = "NotNone" -> [ctx |-> NotNone_internal_is_valid(self, val, ctx), trace |-> <<>>]
      [] self.kind = "Chain" -> Chain_internal_is_valid(self, val, ctx)
      [] self.kind = "Some" -> Some_internal_is_valid(self, val, ctx)
      [] self.kind = "AllItems" -> AllItems_internal_is_valid(self, val, ctx)
      [] self.kind = "SomeItems" -> SomeItems_internal_is_valid(self, val, ctx)
      [] self.kind = "IfField" -> IfField_internal_is_valid(self, val, ctx)
      [] self.kind = "DictValidate" -> DictValidate_internal_is_valid(self, val, ctx)
      [] self.kind = "ModelValidate" -> ModelValidate_internal_is_valid(self, val, ctx)
      [] self.kind = "Required" -> Required_internal_is_valid(self, val, ctx)
      [] self.kind = "Deferred" -> Deferred_internal_is_valid(self, val, ctx)
      [] self.kind = "Optional" -> Optional_internal_is_valid(self, val, ctx)
      [] self.kind = "ItemLimitedOccurrences" ->
            ItemLimitedOccurrences_internal_is_valid(self, val, ctx)

is_valid(self, val, parent) ==
    LET ctx == _build_context(self, val, parent)
        r == _internal_is_valid(self, val, ctx)
    IN  [ctx |-> r.ctx, trace |-> <<[validator |-> self, value |-> val]>> \o r.trace]

\* ------------------------------------------------------------ input pools

s_a == <<"a">>

s_tes == <<"t", "e", "s">>

s_1234 == <<"1", "2", "3", "4">>

s_assa == <<"a", "s", "s", "a">>

s_auds == <<"a", "u", "d", "s">>

s_aass == <<"a", "a", "s", "s">>

s_testaaa == <<"t", "e", "s", "t", "a", "a", "a">>

s_abcdefghijklmno ==
    <<"a", "b", "c", "d", "e", "f", "g", "h", "i", "j", "k", "l", "m", "n", "o">>

ScalarPool == {PyNone, PyStr(s_a), PyStr(s_tes), PyStr(s_1234), PyStr(s_testaaa)}

ItemPool == {PyStr(s_tes), PyStr(s_1234), PyStr(s_abcdefghijklmno)}

ListPool == {PyList(q) : q \in SeqsUpTo(ItemPool, MaxItems)}

SmallListPool == {PyList(q) : q \in SeqsUpTo({PyStr(s_tes), PyStr(s_1234)}, MaxItems)}

\* the children given to Chain and Some: leaves, a child with several errors
\* and a child whose errors carry a field_path
ChildPool ==
    {Length(4, 6), Length(1, 2),
     Chain(<<Length(4, 6), Length(1, 2)>>, FALSE), AllItems(Length(4, 6), FALSE)}

\* the items of nested lists
InnerPool ==
    {PyList(<<PyStr(s_testaaa), PyStr(s_assa)>>), PyList(<<PyStr(s_auds), PyStr(s_aass)>>),
     PyList(<<PyStr(s_testaaa)>>), PyList(<<>>)}

NestedListPool == {PyList(q) : q \in SeqsUpTo(InnerPool, MaxItems)}

s_f1 == <<"f", "1">>

s_f2 == <<"f", "2">>

s_key == <<"k", "e", "y">>

s_kez == <<"k", "e", "z">>

s_x == <<"x">>

IsInjective(q) == \A i, j \in 1..Len(q) : q[i] = q[j] => i = j

\* dicts of at most n entries, with distinct keys from K and values from V
DictsOver(K, V, n) ==
    {PyDict([i \in 1..Len(ks) |-> [k |-> ks[i], v |-> vs[i]]]) :
        <<ks, vs>> \in {p \in SeqsUpTo(K, n) \X SeqsUpTo(V, n) :
                            Len(p[1]) = Len(p[2]) /\ IsInjective(p[1])}}

\* the mappings given to AllItems and SomeItems: str and int keys
MappingPool == DictsOver({PyStr(s_f1), PyStr(s_key), PyInt(7)},
                         {PyStr(s_tes), PyStr(s_1234)}, MaxEntries)

\* the mappings given to DictValidate
DictPool == DictsOver({PyStr(s_f1), PyStr(s_key), PyStr(s_kez)},
                      {PyStr(s_tes), PyStr(s_1234)}, MaxEntries)

\* the specs given to DictValidate
SpecPool ==
    {[i \in 1..Len(names) |-> [name |-> names[i], validator |-> Length(4, 6)]] :
        names \in {q \in SeqsUpTo({PyStr(s_f1), PyStr(s_f2)}, MaxFields) : IsInjective(q)}}

\* the parent contexts given to IfField: none, or a root context
ParentPool ==
    {Nil} \cup {Opt(Context(PyDict(<<[k |-> PyStr(s_f1), v |-> fv]>>), Nil, FALSE, <<>>)) :
                    fv \in {PyNone, PyStr(s_a), PyStr(s_1234)}}

\* a validator that iterates its value is given a container
RECURSIVE NeedsContainer(_)
NeedsContainer(self) ==
    CASE self.kind \in {"AllItems", "SomeItems"} -> TRUE
      [] self.kind \in {"Chain", "Some"} ->
            \E i \in 1..Len(self.validators) : NeedsContainer(self.validators[i])
      [] OTHER -> FALSE

ValuesFor(self) == IF NeedsContainer(self) THEN SmallListPool ELSE ScalarPool

\* ---------------------------------------------------------- the machine

\* no call in progress
CallIdle ==
    /\ pc = "ready"
    /\ validator = Nil
    /\ value = Nil
    /\ parent_ctx = Nil
    /\ result = Nil
    /\ executed = <<>>

\* no object exists
HeapIdle ==
    /\ heap = [contexts |-> <<>>, errors |-> <<>>]
    /\ before = heap
    /\ last = Nil

\* no lookup
LookupIdle ==
    /\ lookup_self = Nil
    /\ lookup_field_path = Nil
    /\ lookup_result = Nil

\* a caller that is not in a call
IdleCaller == [pc |-> "idle", value |-> Nil, ret |-> Nil, seen |-> Nil]

ObjIdle ==
    /\ subject = Nil
    /\ messages = <<>>
    /\ callers = <<>>
    /\ runs = <<>>

\* no export
LegacyIdle ==
    /\ legacy_ctx = Nil
    /\ legacy_result = Nil

Init ==
    /\ CallIdle
    /\ HeapIdle
    /\ LookupIdle
    /\ ObjIdle
    /\ LegacyIdle

\* validator.is_valid(value, parent_ctx=parent): the whole call
Call(self, val, parent) ==
    \E r \in {is_valid(self, val, parent)} :
        /\ pc' = "done"
        /\ validator' = Opt(self)
        /\ value' = Opt(val)
        /\ parent_ctx' = parent
        /\ result' = Opt(r.ctx)
        /\ executed' = r.trace
        /\ UNCHANGED <<heapVars, lookupVars, objVars, legacyVars>>

CallChain ==
    /\ pc = "ready"
    /\ \E vs \in SeqsUpTo(ChildPool, MaxValidators), stop \in BOOLEAN :
          \E val \in ValuesFor(Chain(vs, stop)) : Call(Chain(vs, stop), val, Nil)

CallSome ==
    /\ pc = "ready"
    /\ \E vs \in SeqsUpTo(ChildPool, MaxValidators) :
          \E val \in ValuesFor(Some(vs)) : Call(Some(vs), val, Nil)

CallAllItems ==
    /\ pc = "ready"
    /\ \/ \E c \in {Length(4, 6), Length(5, 16)}, stop \in BOOLEAN :
             \E val \in ListPool \cup MappingPool : Call(AllItems(c, stop), val, Nil)
       \/ \E inner, outer \in BOOLEAN :
             \E val \in NestedListPool :
                 Call(AllItems(AllItems(Length(5, 16), inner), outer), val, Nil)

CallSomeItems ==
    /\ pc = "ready"
    /\ \E min, max \in -1..MaxItems, stop \in BOOLEAN :
          /\ SomeItems_init_ok(min, max)
          /\ \E val \in ListPool \cup MappingPool :
                 Call(SomeItems(min, max, Length(4, 6), stop), val, Nil)

CallIfField ==
    /\ pc = "ready"
    /\ \E v \in {Length(4, 6), Chain(<<Length(4, 6), Length(1, 2)>>, FALSE)},
          field_name \in {s_x, s_f1, <<"0">>},
          field_validator \in {Nil, Opt(Length(1, 2)), Opt(NotNone)},
          run_if_none, add_check_info \in BOOLEAN :
          \E val \in ScalarPool, parent \in ParentPool :
              Call(IfField(v, field_name, field_validator, run_if_none, add_check_info),
                   val, parent)

CallDictValidate ==
    /\ pc = "ready"
    /\ \E spec \in SpecPool, stop \in BOOLEAN,
          key_validator \in {Nil, Opt(Length(1, 2)), Opt(Length(5, 9))},
          value_validators \in {Nil, Opt(AllItems(Length(4, 6), FALSE))} :
          \E val \in DictPool \cup {PyNone, PyStr(s_tes)} :
              Call(DictValidate(spec, stop, key_validator, value_validators), val, Nil)

\* the values given to ModelValidate: models of two unrelated classes, and
\* values that are no models
ModelValuePool ==
    {PyModel(class, d.entries) : class \in {"Person", "Pet"}, d \in DictPool}
        \cup {PyNone, PyStr(s_tes), PyDict(<<[k |-> PyStr(s_f1), v |-> PyStr(s_1234)]>>)}

CallModelValidate ==
    /\ pc = "ready"
    /\ \E modelclass \in {"BaseModel", "Person", "Pet"}, spec \in SpecPool, stop \in BOOLEAN,
          key_validator \in {Nil, Opt(Length(1, 2))} :
          \E val \in ModelValuePool :
              Call(ModelValidate(modelclass, spec, stop, key_validator, Nil), val, Nil)

\* the validators Required and Optional wrap
WrappedPool == {Length(4, 6), Length(1, 2), Length(7, 8)}

\* the emptiness predicates: the default, and one that rejects '' and None
EmptyValidatorPool == {Nil, Opt(Length(1, -1))}

\* the values given to Required and Optional
MaybeEmptyPool == ScalarPool \cup {PyStr(<<>>)}

CallRequired ==
    /\ pc = "ready"
    /\ \E vs \in SeqsUpTo(WrappedPool, MaxValidators), stop \in BOOLEAN,
          empty_validator \in EmptyValidatorPool :
          \E val \in MaybeEmptyPool : Call(Required(vs, stop, empty_validator), val, Nil)

CallOptional ==
    /\ pc = "ready"
    /\ \E vs \in SeqsUpTo(WrappedPool, MaxValidators), stop \in BOOLEAN,
          empty_validator \in EmptyValidatorPool :
          \E val \in MaybeEmptyPool : Call(Optional(vs, stop, empty_validator), val, Nil)

\* the records of nesting depth n: int_field is fine, too long or missing
RECURSIVE RecordsOfDepth(_)
RecordsOfDepth(n) ==
    LET int_fields == {<<[k |-> PyStr(s_int_field), v |-> v]>> :
                          v \in {PyStr(s_a), PyStr(s_abcdefghijklmno)}} \cup {<<>>}
    IN  IF n = 0 THEN {PyModel("Model", f) : f \in int_fields}
        ELSE {PyModel("Model", f \o <<[k |-> PyStr(s_model_field), v |-> m]>>) :
                 f \in int_fields, m \in RecordsOfDepth(n - 1)}

RecordPool == UNION {RecordsOfDepth(n) : n \in 0..MaxNesting}

\* the schemas built ahead of their use: the record validator, a Deferred of
\* it, a Deferred of a plain validator
SchemaPool == {RecordValidator, Deferred("Validator"), Deferred("Length")}

\* the construction of a schema: the Deferred in it is constructed
ConstructSchema ==
    /\ pc = "ready"
    /\ \E schema \in SchemaPool :
          /\ pc' = "constructed"
          /\ validator' = Opt(schema)
          /\ executed' = Deferred_init_calls(IF schema.kind = "Deferred"
                                             THEN schema.validator ELSE "Validator")
          /\ UNCHANGED <<value, parent_ctx, result, heapVars, lookupVars, objVars, legacyVars>>

\* the constructed schema is evaluated
CallSchema ==
    /\ pc = "constructed"
    /\ \E val \in RecordPool \cup {PyStr(s_a), PyStr(s_abcdefghijklmno), PyNone} :
          /\ validator[1] = Deferred("Length") => val.t # "model"
          /\ Call(validator[1], val, Nil)

\* the containers given to ItemLimitedOccurrences: lists, and mappings whose
\* values are the items
OccurrencePool ==
    {PyList(q) : q \in SeqsUpTo({PyStr(s_a), PyStr(s_tes), PyStr(s_1234)}, MaxItems)}
        \cup MappingPool

CallItemLimitedOccurrences ==
    /\ pc = "ready"
    /\ \E min_occ \in 0..MaxItems, max_occ \in 1..MaxItems :
          \E val \in OccurrencePool : Call(ItemLimitedOccurrences(min_occ, max_occ), val, Nil)

\* values of every shape for a validator of items
ShapePool == ScalarPool \cup {PyInt(5), PyList(<<PyStr(s_tes)>>), PyList(<<PyStr(s_1234)>>)}

\* is_valid of an AllItems or a SomeItems on a value of any shape: the call
\* returns its context, or the for statement of _internal_is_valid raises
CallOnShape ==
    /\ pc = "ready"
    /\ \E self \in {AllItems(Length(4, 6), TRUE), AllItems(Length(4, 6), FALSE),
                     SomeItems(1, -1, Length(4, 6), TRUE)},
          val \in ShapePool :
          IF for_raises(val) = Nil THEN Call(self, val, Nil)
          ELSE /\ pc' = "raised"
               /\ validator' = Opt(self)
               /\ value' = Opt(val)
               /\ parent_ctx' = Nil
               /\ result' = Opt(PyRaise(for_raises(val)[1]))
               /\ executed' = <<>>
               /\ UNCHANGED <<heapVars, lookupVars, objVars, legacyVars>>

\* the caller drops the returned context; the next call starts afresh
Return ==
    /\ pc = "done"
    /\ pc' = "ready"
    /\ validator' = Nil
    /\ value' = Nil
    /\ parent_ctx' = Nil
    /\ result' = Nil
    /\ executed' = <<>>
    /\ UNCHANGED <<heapVars, lookupVars, objVars, legacyVars>>

Next ==
    \/ CallChain
    \/ CallSome
    \/ CallAllItems
    \/ CallSomeItems
    \/ CallIfField
    \/ CallDictValidate
    \/ CallModelValidate
    \/ CallRequired
    \/ CallOptional
    \/ ConstructSchema
    \/ CallSchema
    \/ CallOnShape
    \/ CallItemLimitedOccurrences
    \/ Return

Spec == Init /\ [][Next]_vars

\* ------------------------------------------- the machine of the objects

\* the references of the contexts that exist
Refs == 1..Len(heap.contexts)

\* one operation op of a client, which leaves the objects as h
HeapStep(op, h) ==
    /\ Len(h.contexts) <= MaxContexts
    /\ Len(h.errors) <= MaxErrors
    /\ heap' = h
    /\ before' = heap
    /\ last' = Opt(op)
    /\ UNCHANGED <<callVars, lookupVars, objVars, legacyVars>>

\* Context(value=...) first, then Context(value=..., parent=ctx) of the
\* newest context
NewContext ==
    \E parent \in (IF Refs = {} THEN {Nil} ELSE {Opt(Len(heap.contexts))}) :
        HeapStep([op |-> "Context", self |-> Len(heap.contexts) + 1],
                 new_context(heap, PyStr(s_a), parent, FALSE))

BuildChild ==
    \E self \in Refs :
        HeapStep([op |-> "build_child", self |-> Len(heap.contexts) + 1],
                 Ctx_build_child(heap, self, PyStr(s_tes), TRUE))

CtxError ==
    \E self \in Refs :
        HeapStep([op |-> "error", self |-> self],
                 Ctx_error(heap, self, TOO_SHORT, error_messages(TOO_SHORT), <<>>))

\* self.add_error(ValidationErrorMessage(...)) of a message made by the client
CtxAddError ==
    \E self \in Refs, field_path \in {Opt(s_f1)} :
        LET n == new_error(heap, ValidationErrorMessage(NOT_NONE, error_messages(NOT_NONE),
                                                        <<>>, field_path))
        IN  HeapStep([op |-> "add_error", self |-> self],
                     Ctx_add_error(n.heap, self, n.ref))

\* self.import_errors(ctx, field_path) of another context
CtxImportErrors ==
    \E self \in Refs, ctx \in Refs, field_path \in {Nil, Opt(s_key)} :
        /\ self # ctx
        /\ HeapStep([op |-> "import_errors", self |-> self, ctx |-> ctx,
                     field_path |-> field_path],
                    Ctx_import_errors(heap, self, ctx, field_path))

HeapInit ==
    /\ CallIdle
    /\ HeapIdle
    /\ LookupIdle
    /\ ObjIdle
    /\ LegacyIdle

HeapNext ==
    \/ NewContext
    \/ BuildChild
    \/ CtxError
    \/ CtxAddError
    \/ CtxImportErrors

HeapSpec == HeapInit /\ [][HeapNext]_vars

\* ------------------------------------------------------ claims: helpers

Done(kind) == pc = "done" /\ validator[1].kind = kind

\* the context the call under observation built for itself
CallCtx == _build_context(validator[1], value[1], parent_ctx)

\* what child validator c returns on v when called from the observed call
ChildErrors(c, v) == is_valid(c, v, Opt(CallCtx)).ctx.error_messages

ChildTrace(c, v) == is_valid(c, v, Opt(CallCtx)).trace

RECURSIVE Flatten(_)
Flatten(seqs) == IF seqs = <<>> THEN <<>> ELSE Head(seqs) \o Flatten(Tail(seqs))

ResultErrors == result[1].error_messages

SelfCall == <<[validator |-> validator[1], value |-> value[1]]>>

\* ------------------------------------------------------------------- C1

\* the children of the observed Chain (or Some) that reject the value
Rejecting == {i \in 1..Len(validator[1].validators) :
                  ChildErrors(validator[1].validators[i], value[1]) # <<>>}

\* the last child a Chain runs: the first rejecting one under stop_on_fail
ChainLast ==
    IF validator[1].stop_on_fail /\ Rejecting # {}
    THEN CHOOSE i \in Rejecting : \A j \in Rejecting : i <= j
    ELSE Len(validator[1].validators)

ItemCount ==
    IF value[1].t = "list" THEN Len(value[1].items) ELSE Len(value[1].entries)

ItemValue(i) ==
    IF value[1].t = "list" THEN value[1].items[i] ELSE value[1].entries[i].v

\* the text of item i's position: its index from 0, or its key
PositionText(i) ==
    IF value[1].t = "list" THEN <<DigitChars[i]>>
    ELSE IF value[1].entries[i].k.t = "str" THEN value[1].entries[i].k.s
    ELSE <<DigitChars[value[1].entries[i].k.n + 1]>>

\* error e as seen one level up, under position pos
Prefixed(e, pos) ==
    [e EXCEPT !.field_path = Opt(IF e.field_path = Nil THEN pos
                                 ELSE pos \o <<".">> \o e.field_path[1])]

PrefixedAll(errs, pos) == [m \in 1..Len(errs) |-> Prefixed(errs[m], pos)]

\* the (code, field_path) pairs of an error list
Summary(errs) == [m \in 1..Len(errs) |-> <<errs[m].code, errs[m].field_path>>]

Least(S) == CHOOSE i \in S : \A j \in S : i <= j

\* ------------------------------------------------------------ C2 and C6

ItemErrors(i) == ChildErrors(validator[1].validator, ItemValue(i))

Failing == {i \in 1..ItemCount : ItemErrors(i) # <<>>}

C2_ExampleValidator == AllItems(AllItems(Length(5, 16), TRUE), TRUE)

C2_ExampleValue ==
    PyList(<<PyList(<<PyStr(s_testaaa), PyStr(s_assa)>>),
             PyList(<<PyStr(s_auds), PyStr(s_aass)>>)>>)

AllItemsLast ==
    IF validator[1].stop_on_fail /\ Failing # {} THEN Least(Failing) ELSE ItemCount

TmpCtx == Context(PyNone, Opt(CallCtx), FALSE, <<>>)

SomeItemErrors(i) ==
    is_valid(validator[1].validator, ItemValue(i), Opt(TmpCtx)).ctx.error_messages

SomeItemTrace(i) == is_valid(validator[1].validator, ItemValue(i), Opt(TmpCtx)).trace

\* the number of items among the first k that pass the child validator
PassCount(k) == Cardinality({i \in 1..k : SomeItemErrors(i) = <<>>})

\* the items at which the count of passing items is above max
Crossing == {k \in 1..ItemCount : validator[1].max # -1 /\ PassCount(k) > validator[1].max}

\* the last item SomeItems validates
SomeItemsLast ==
    IF validator[1].stop_on_fail /\ Crossing # {} THEN Least(Crossing) ELSE ItemCount

FinalPass == PassCount(SomeItemsLast)

\* the number of errors of the result with this code and a null field_path
NullPathCount(code) ==
    Cardinality({n \in 1..Len(ResultErrors) :
                    ResultErrors[n].code = code /\ ResultErrors[n].field_path = Nil})

WithinBounds ==
    /\ validator[1].min = -1 \/ FinalPass >= validator[1].min
    /\ validator[1].max = -1 \/ FinalPass <= validator[1].max

C7_ExampleValue == PyList(<<PyStr(s_tes), PyStr(s_1234), PyStr(s_abcdefghijklmno)>>)

FieldValue == get_field_value(CallCtx, validator[1].field_name)

SkippedAsNone == ~validator[1].run_if_none /\ FieldValue.t = "none"

GuardRejects ==
    /\ validator[1].field_validator # Nil
    /\ ChildErrors(validator[1].field_validator[1], FieldValue) # <<>>

\* the calls IfField makes for its guard
GuardTrace ==
    IF SkippedAsNone \/ validator[1].field_validator = Nil THEN <<>>
    ELSE ChildTrace(validator[1].field_validator[1], FieldValue)

IsCheckInfo(e) ==
    /\ e.code = NEEDS_VALIDATE
    /\ e.field_path = Nil
    /\ \E n \in 1..Len(e.ctx_values) :
          e.ctx_values[n] = [k |-> "field_name", v |-> PyStr(validator[1].field_name)]
    /\ \E n \in 1..Len(e.ctx_values) :
          e.ctx_values[n] = [k |-> "field_value", v |-> FieldValue]

Named(key) == \E i \in 1..Len(validator[1].spec) : validator[1].spec[i].name = key

Unnamed(entry) == ~Named(entry.k)

\* the entries of the observed dict whose keys the spec does not name
UnnamedEntries == SelectSeq(value[1].entries, Unnamed)

KeyErrors(n) == ChildErrors(validator[1].key_validator[1], UnnamedEntries[n].k)

InvalidKeys ==
    IF validator[1].key_validator = Nil THEN {}
    ELSE {n \in 1..Len(UnnamedEntries) : KeyErrors(n) # <<>>}

KeysLast ==
    IF validator[1].key_validator = Nil THEN 0
    ELSE IF validator[1].stop_on_fail /\ InvalidKeys # {} THEN Least(InvalidKeys)
    ELSE Len(UnnamedEntries)

\* phase 1: per invalid key, INVALID_KEY and the key-validator's errors
KeyPhase ==
    Flatten([n \in 1..KeysLast |->
                IF n \in InvalidKeys
                THEN <<<<INVALID_KEY, Nil>>>>
                         \o Summary(PrefixedAll(KeyErrors(n), UnnamedEntries[n].k.s))
                ELSE <<>>])

KeyPhaseTrace ==
    Flatten([n \in 1..KeysLast |->
                ChildTrace(validator[1].key_validator[1], UnnamedEntries[n].k)])

FieldOf(i) ==
    IF \E n \in 1..Len(value[1].entries) : value[1].entries[n].k = validator[1].spec[i].name
    THEN value[1].entries[CHOOSE n \in 1..Len(value[1].entries) :
                             value[1].entries[n].k = validator[1].spec[i].name].v
    ELSE PyNone

FieldErrors(i) == ChildErrors(validator[1].spec[i].validator, FieldOf(i))

RejectingFields == {i \in 1..Len(validator[1].spec) : FieldErrors(i) # <<>>}

FieldsLast ==
    IF validator[1].stop_on_fail /\ RejectingFields # {} THEN Least(RejectingFields)
    ELSE Len(validator[1].spec)

\* phase 2: per spec entry, the field's errors under the field name
FieldPhase ==
    Flatten([i \in 1..FieldsLast |->
                Summary(PrefixedAll(FieldErrors(i), validator[1].spec[i].name.s))])

FieldPhaseTrace ==
    Flatten([i \in 1..FieldsLast |-> ChildTrace(validator[1].spec[i].validator, FieldOf(i))])

\* phase 3: the catch-all validator on the entries the spec does not name
ValuePhase ==
    IF validator[1].value_validators = Nil THEN <<>>
    ELSE Summary(ChildErrors(validator[1].value_validators[1], PyDict(UnnamedEntries)))

ValuePhaseTrace ==
    IF validator[1].value_validators = Nil THEN <<>>
    ELSE ChildTrace(validator[1].value_validators[1], PyDict(UnnamedEntries))

RECURSIVE JoinDots(_)
JoinDots(segs) ==
    IF segs = <<>> THEN <<>>
    ELSE IF Len(segs) = 1 THEN segs[1]
    ELSE DotJoin(segs[1], JoinDots(Tail(segs)))

\* '<root>'
RootWord == SubSeq(RootToken, 1, Len(RootToken) - 1)

\* a mapping that tells its level n: entries of every kind of value, a str
\* key "0" beside the int keys 0 and 1
RichValue(n) ==
    PyDict(<<[k |-> PyStr(<<"a">>), v |-> PyStr(<<"v">> \o IntToStr(n))],
             [k |-> PyStr(<<"l">>),
              v |-> PyList(<<PyStr(<<"x">> \o IntToStr(n)),
                             PyDict(<<[k |-> PyStr(<<"b">>),
                                       v |-> PyStr(<<"y">> \o IntToStr(n))]>>)>>)],
             [k |-> PyStr(<<"o">>),
              v |-> PyObj(<<[k |-> <<"a">>, v |-> PyStr(<<"w">> \o IntToStr(n))]>>)],
             [k |-> PyStr(<<"n">>), v |-> PyNone],
             [k |-> PyStr(<<"0">>), v |-> PyStr(<<"s">> \o IntToStr(n))],
             [k |-> PyInt(0), v |-> PyStr(<<"i">> \o IntToStr(n))],
             [k |-> PyInt(1), v |-> PyStr(<<"j">> \o IntToStr(n))],
             [k |-> PyStr(<<"i">>), v |-> PyInt(n)]>>)

\* a sequence that tells its level n
ListValue(n) == PyList(<<PyStr(<<"p">> \o IntToStr(n)), PyStr(<<"q">> \o IntToStr(n))>>)

LevelValues(n) == {RichValue(n), ListValue(n), PyNone}

\* the chains of d contexts: a root, then step and non-step descendants
RECURSIVE ChainsOfDepth(_)
ChainsOfDepth(d) ==
    IF d = 1 THEN {Context(v, Nil, FALSE, <<>>) : v \in LevelValues(1)}
    ELSE {Context(v, Opt(parent), is_step, <<>>) :
             parent \in ChainsOfDepth(d - 1), v \in LevelValues(d), is_step \in BOOLEAN}

ChainPool == UNION {ChainsOfDepth(d) : d \in 1..MaxDepth}

\* the navigation tokens in front of a path
PrefixPool ==
    {<<>>, <<ContextToken>>, <<ContextToken, ContextToken>>,
     <<ContextToken, ContextToken, ContextToken>>, <<RootWord>>}

\* the segments behind them
SegmentsPool ==
    {<<>>,
     <<<<"a">>>>, <<<<"x">>>>, <<<<"0">>>>, <<<<"1">>>>, <<<<"7">>>>,
     <<<<"l">>, <<"0">>>>, <<<<"l">>, <<"0", "1">>, <<"b">>>>, <<<<"l">>, <<"5">>>>,
     <<<<"l">>, <<"5">>, <<"a">>>>, <<<<"l">>, <<"b">>>>,
     <<<<"o">>, <<"a">>>>, <<<<"o">>, <<"z">>>>, <<<<"n">>, <<"a">>>>,
     <<<<"x">>, <<"a">>>>, <<<<"a">>, <<"b">>>>, <<<<"a">>, <<"0">>>>,
     <<<<"i">>, <<"a">>>>,
     <<<<SuperscriptTwo>>>>, <<<<"l">>, <<SuperscriptTwo>>>>}

PathPool == {JoinDots(prefix \o segments) : prefix \in PrefixPool, segments \in SegmentsPool}

LookupInit ==
    /\ CallIdle
    /\ HeapIdle
    /\ lookup_self \in {Opt(c) : c \in ChainPool}
    /\ lookup_field_path \in {Opt(q) : q \in PathPool}
    /\ lookup_result = Nil
    /\ ObjIdle
    /\ LegacyIdle

\* self.get_field_value(field_path)
GetFieldValue ==
    /\ lookup_result = Nil
    /\ lookup_result' = Opt(get_field_value(lookup_self[1], lookup_field_path[1]))
    /\ UNCHANGED <<lookup_self, lookup_field_path, callVars, heapVars, objVars, legacyVars>>

LookupNext == GetFieldValue

LookupSpec == LookupInit /\ [][LookupNext]_vars

\* ------------------------------------------------ claims on the objects

\* the last operation was op
Did(op) == last # Nil /\ last[1].op = op

\* the error list of the context of reference c among the objects h
ErrorList(h, c) == h.contexts[c].error_messages

\* the path an imported copy carries: the source's under no prefix, the
\* prefix for a source without path, "prefix.path" otherwise
ImportedPath(source_path, prefix) ==
    IF prefix = Nil THEN source_path
    ELSE IF source_path = Nil THEN prefix
    ELSE Opt(prefix[1] \o <<".">> \o source_path[1])

\* C11: a Context is truthy iff its own error list is empty, and an
\* operation on one context (creating a child of it, registering or
\* importing errors on a child) leaves the error list and the truthiness of
\* every other context, its parent included, as they were.
C11_OwnErrorsOnly ==
    /\ \A c \in Refs : Ctx_bool(heap, c) <=> ErrorList(heap, c) = <<>>
    /\ last # Nil =>
          \A c \in 1..Len(before.contexts) :
              c # last[1].self =>
                  /\ ErrorList(heap, c) = ErrorList(before, c)
                  /\ Ctx_bool(heap, c) = Ctx_bool(before, c)

\* an error has just been registered on a child, which is falsy, and its
\* parent is still truthy
C11_Witness ==
    /\ last # Nil
    /\ last[1].op \in {"error", "add_error", "import_errors"}
    /\ heap.contexts[last[1].self].parent # Nil
    /\ ~Ctx_bool(heap, last[1].self)
    /\ Ctx_bool(before, last[1].self)
    /\ Ctx_bool(heap, heap.contexts[last[1].self].parent[1])

\* C12: self.import_errors(ctx, p) appends to self, behind its errors and in
\* the order of ctx, one new object per error of ctx, equal to it in code,
\* template and values and with the path p joined in front; the list of ctx
\* and every object that existed are as they were.
C12_ImportAppendsCopies ==
    Did("import_errors") =>
        LET self == last[1].self
            ctx == last[1].ctx
            old == ErrorList(before, self)
            src == ErrorList(before, ctx)
            now == ErrorList(heap, self)
        IN  /\ Len(now) = Len(old) + Len(src)
            /\ SubSeq(now, 1, Len(old)) = old
            /\ \A i \in 1..Len(src) :
                  LET new == now[Len(old) + i]
                      e == before.errors[src[i]]
                  IN  /\ new > Len(before.errors)
                      /\ \A j \in 1..Len(src) : now[Len(old) + j] = new => j = i
                      /\ heap.errors[new].code = e.code
                      /\ heap.errors[new].msg_tpl = e.msg_tpl
                      /\ heap.errors[new].ctx_values = e.ctx_values
                      /\ heap.errors[new].field_path =
                            ImportedPath(e.field_path, last[1].field_path)
            /\ ErrorList(heap, ctx) = src
            /\ \A e \in 1..Len(before.errors) : heap.errors[e] = before.errors[e]

\* errors with and without a path have been imported under a prefix, behind
\* an error the importing context had
C12_Witness ==
    /\ Did("import_errors")
    /\ last[1].field_path # Nil
    /\ ErrorList(before, last[1].self) # <<>>
    /\ \E i \in 1..Len(ErrorList(before, last[1].ctx)) :
          before.errors[ErrorList(before, last[1].ctx)[i]].field_path # Nil
    /\ Len(ErrorList(heap, last[1].self)) >
          Len(ErrorList(before, last[1].self))

\* ------------------------------------------------ claims on the lookups

\* the contexts from c up to the root of its chain
RECURSIVE Ancestors(_)
Ancestors(c) == <<c>> \o (IF c.parent = Nil THEN <<>> ELSE Ancestors(c.parent[1]))

IsStep(c) == c.is_step

\* the step contexts among them, the nearest first
StepsFrom(c) == SelectSeq(Ancestors(c), IsStep)

\* '<context>.'
ContextDot == ContextToken \o <<".">>

\* the number of '<context>' tokens a path starts with
RECURSIVE LeadingContexts(_)
LeadingContexts(path) ==
    IF path = ContextToken THEN 1
    ELSE IF StartsWith(path, ContextDot)
         THEN 1 + LeadingContexts(SubSeq(path, Len(ContextDot) + 1, Len(path)))
    ELSE 0

\* the path behind its navigation tokens
RECURSIVE Remainder(_)
Remainder(path) ==
    IF path = ContextToken THEN <<>>
    ELSE IF StartsWith(path, ContextDot)
         THEN Remainder(SubSeq(path, Len(ContextDot) + 1, Len(path)))
    ELSE IF StartsWith(path, RootToken) THEN SubSeq(path, Len(RootToken) + 1, Len(path))
    ELSE path

\* the segments of rest resolved against the value val
ResolvedAgainst(val, rest) ==
    IF val.t = "none" THEN PyNone ELSE ResolveSegments(val, SplitDots(rest))

\* a lookup has been made
Looked == lookup_result # Nil

\* the context the tokens of the path lead to from the context looked up
\* from: Nil when the chain has too few step contexts
Located ==
    LET steps == StepsFrom(lookup_self[1])
        k == LeadingContexts(lookup_field_path[1])
    IN  IF StartsWith(lookup_field_path[1], RootToken) THEN Opt(steps[Len(steps)])
        ELSE IF k + 1 > Len(steps) THEN Nil
        ELSE Opt(steps[k + 1])

\* C13: a path with k >= 0 leading '<context>' tokens resolves its other
\* segments against the value of the k-th step ancestor of the nearest step
\* context (the context itself when it is a step); contexts that are not
\* steps are no level; with fewer than k step ancestors the result is None.
C13_ContextTokens ==
    (Looked /\ ~StartsWith(lookup_field_path[1], RootToken)) =>
        lookup_result[1] =
            IF Located = Nil THEN PyNone
            ELSE ResolvedAgainst(Located[1].value, Remainder(lookup_field_path[1]))

\* '<context>.' from a step context below a context that is not a step
\* reached the root's value
C13_Witness ==
    /\ Looked
    /\ LeadingContexts(lookup_field_path[1]) = 1
    /\ lookup_self[1].is_step
    /\ lookup_self[1].parent # Nil
    /\ ~lookup_self[1].parent[1].is_step
    /\ lookup_result[1].t = "str"

\* C14: a path that starts with '<root>.' resolves its other segments
\* against the value of the outermost step context of the chain, which is
\* the context without parent, from whatever depth it is looked up.
C14_RootToken ==
    (Looked /\ StartsWith(lookup_field_path[1], RootToken)) =>
        LET chain == Ancestors(lookup_self[1])
        IN  /\ Located[1] = chain[Len(chain)]
            /\ Located[1].parent = Nil
            /\ lookup_result[1] =
                  ResolvedAgainst(chain[Len(chain)].value, Remainder(lookup_field_path[1]))

\* '<root>.' looked up two levels below the root, whose value differs from
\* the values in between, reached a value of the root
C14_Witness ==
    /\ Looked
    /\ StartsWith(lookup_field_path[1], RootToken)
    /\ Len(Ancestors(lookup_self[1])) = 3
    /\ \A i \in 1..2 : Ancestors(lookup_self[1])[i].value.t = "dict"
    /\ lookup_result[1].t = "str"

\* C15: get_field_value never raises: it returns a value or None.
C15_NeverRaises == Looked => lookup_result[1].t # "raise"

\* a digit-only segment in the sense of the decimal digits
DecimalOnly(segment) ==
    Len(segment) > 0 /\ \A i \in 1..Len(segment) : IsDecimalChar(segment[i])

\* the value one segment leads to from val by the rules: an index of a
\* sequence, a str key and then an int key of a mapping, an attribute of
\* any other value; Nil where the rules give no value
SegmentValue(val, segment) ==
    CASE val.t = "list" ->
            IF DecimalOnly(segment) /\ int(segment) < Len(val.items)
            THEN Opt(val.items[int(segment) + 1]) ELSE Nil
      [] val.t = "str" ->
            IF DecimalOnly(segment) /\ int(segment) < Len(val.s)
            THEN Opt(PyStr(<<val.s[int(segment) + 1]>>)) ELSE Nil
      [] val.t = "dict" ->
            IF \E i \in 1..Len(val.entries) : val.entries[i].k = PyStr(segment)
            THEN Opt(val.entries[CHOOSE i \in 1..Len(val.entries) :
                                     val.entries[i].k = PyStr(segment)].v)
            ELSE IF DecimalOnly(segment)
                    /\ \E i \in 1..Len(val.entries) : val.entries[i].k = PyInt(int(segment))
                 THEN Opt(val.entries[CHOOSE i \in 1..Len(val.entries) :
                                          val.entries[i].k = PyInt(int(segment))].v)
                 ELSE Nil
      [] val.t = "obj" ->
            IF \E i \in 1..Len(val.attrs) : val.attrs[i].k = segment
            THEN Opt(val.attrs[CHOOSE i \in 1..Len(val.attrs) : val.attrs[i].k = segment].v)
            ELSE Nil
      [] OTHER -> Nil

\* the value the segments lead to from val, left to right
RECURSIVE SegmentsValue(_, _)
SegmentsValue(val, segments) ==
    IF segments = <<>> THEN Opt(val)
    ELSE LET next == SegmentValue(val, Head(segments))
         IN  IF next = Nil THEN Nil ELSE SegmentsValue(next[1], Tail(segments))

\* the value the rules give the lookup, Nil where they give none
RuleValue ==
    IF Located = Nil THEN Nil
    ELSE SegmentsValue(Located[1].value, SplitDots(Remainder(lookup_field_path[1])))

\* C16: behind the navigation tokens the segments are resolved left to
\* right: a digit-only segment indexes a sequence; a segment is a str key of
\* a mapping and, when that key is absent and it is digit-only, an int key;
\* it is an attribute of any other value.  Where every segment leads to a
\* value, the result is the value behind the last one.
C16_SegmentRules == (Looked /\ RuleValue # Nil) => lookup_result[1] = RuleValue[1]

\* an index of a sequence and a key of a mapping in one path
C16_Witness ==
    /\ Looked
    /\ Len(SplitDots(Remainder(lookup_field_path[1]))) = 3
    /\ RuleValue # Nil
    /\ lookup_result[1].t = "str"

\* ---------------------------------------------------------- C17 and C18

\* the emptiness predicate of the observed call judges the value empty
JudgedEmpty == ChildErrors(validator[1].empty_validator, value[1]) # <<>>

EmptyTrace == ChildTrace(validator[1].empty_validator, value[1])

\* the Chain the observed Required or Optional wraps, run on its own
WrappedChain == Chain(validator[1].validators, validator[1].stop_on_fail)

WrappedRun == is_valid(WrappedChain, value[1], parent_ctx)

\* the calls made on the wrapped validators
WrappedCalls == {i \in 1..Len(executed) :
                    \E j \in 1..Len(validator[1].validators) :
                        executed[i].validator = validator[1].validators[j]}

KeysValidated ==
    /\ pc = "done"
    /\ \/ validator[1].kind = "DictValidate" /\ value[1].t = "dict"
       \/ /\ validator[1].kind = "ModelValidate"
          /\ isinstance(value[1], validator[1].modelclass)
    /\ validator[1].key_validator # Nil

IsKeyCall(call) == call.validator = validator[1].key_validator[1]

\* the values the key validator was called on, in order
CheckedKeys ==
    LET calls == SelectSeq(executed, IsKeyCall)
    IN  [n \in 1..Len(calls) |-> calls[n].value]

UnnamedKeys == [n \in 1..Len(UnnamedEntries) |-> UnnamedEntries[n].k]

\* the positions of the INVALID_KEY errors in the result
InvalidKeyErrors == {m \in 1..Len(ResultErrors) : ResultErrors[m].code = INVALID_KEY}

\* the errors of the n-th unnamed key, as the claim has them reported
ReportedKey(n) ==
    IF KeyErrors(n) = <<>> THEN <<>>
    ELSE <<<<INVALID_KEY, Nil>>>>
             \o [m \in 1..Len(KeyErrors(n)) |->
                    <<KeyErrors(n)[m].code,
                      Opt(IF KeyErrors(n)[m].field_path = Nil THEN UnnamedKeys[n].s
                          ELSE DotJoin(UnnamedKeys[n].s, KeyErrors(n)[m].field_path[1]))>>]

ValuesValidated ==
    /\ pc = "done"
    /\ \/ validator[1].kind = "DictValidate" /\ value[1].t = "dict"
       \/ /\ validator[1].kind = "ModelValidate"
          /\ isinstance(value[1], validator[1].modelclass)
    /\ validator[1].value_validators # Nil
    /\ ~(validator[1].stop_on_fail /\ (KeyPhase # <<>> \/ RejectingFields # {}))

IsValuesCall(call) == call.validator = validator[1].value_validators[1]

\* the errors the catch-all validator returns on the unnamed entries
CatchAllErrors == ChildErrors(validator[1].value_validators[1], PyDict(UnnamedEntries))

\* the unnamed entries whose value the inner validator of the catch-all rejects
Offending ==
    {n \in 1..Len(UnnamedEntries) :
        ChildErrors(validator[1].value_validators[1].validator, UnnamedEntries[n].v) # <<>>}

IsFactoryCall(call) == call.validator.kind = "build_validator"

IsDeferredCall(call) == call.validator.kind = "Deferred"

\* the record nested n levels down in rec, Nil where rec is not that deep
RECURSIVE NestedRecord(_, _)
NestedRecord(rec, n) ==
    IF n = 0 THEN Opt(rec)
    ELSE IF HasKey(Model_fields(rec), PyStr(s_model_field))
         THEN NestedRecord(Lookup(Model_fields(rec), PyStr(s_model_field)), n - 1)
         ELSE Nil

\* the error of the int_field of a record, Nil when it is accepted
IntFieldError(rec) ==
    IF ~HasKey(Model_fields(rec), PyStr(s_int_field)) THEN Opt(REQUIRED)
    ELSE IF Len(Lookup(Model_fields(rec), PyStr(s_int_field)).s) > 4 THEN Opt(TOO_LONG)
    ELSE Nil

\* the nesting depths at which the observed record has a rejected int_field
BadDepths ==
    {n \in 0..MaxNesting :
        /\ NestedRecord(value[1], n) # Nil
        /\ IntFieldError(NestedRecord(value[1], n)[1]) # Nil}

\* n times model_field, then int_field
RECURSIVE PathAtDepth(_)
PathAtDepth(n) ==
    IF n = 0 THEN s_int_field ELSE DotJoin(s_model_field, PathAtDepth(n - 1))

SetItem(d, k, v) ==
    IF \E i \in 1..Len(d) : d[i].k = k
    THEN [i \in 1..Len(d) |-> IF d[i].k = k THEN [k |-> k, v |-> v] ELSE d[i]]
    ELSE Append(d, [k |-> k, v |-> v])

RECURSIVE DictUpdate(_, _, _)
\* d.update(e), from entry i of e on
DictUpdate(d, e, i) ==
    IF i > Len(e) THEN d ELSE DictUpdate(SetItem(d, e[i].k, e[i].v), e, i + 1)

\* Template(msg_tpl).safe_substitute(placeholders): the template and the
\* values that fill it
safe_substitute(msg_tpl, placeholders) ==
    [msg_tpl |-> msg_tpl, placeholders |-> placeholders]

\* BaseValidator.error of basic.py: self.messages after self.error(code, value)
BaseValidator_error(self, msgs, error_code, val) ==
    SetItem(msgs, error_code,
            safe_substitute(error_messages(error_code),
                            DictUpdate(<<[k |-> "value", v |-> val]>>,
                                       message_values(self), 1)))

\* faulty variant: the messages of the call before are kept
is_valid_keep(msgs) == msgs

\* BaseValidator.is_valid of basic.py, its first statement: self.messages = {}
is_valid_reset(msgs) == <<>>

\* Length._internal_is_valid of basic.py: the verdict, and self.messages after
Length_on_self(self, msgs, val) ==
    LET length == PyLen(val)
    IN  IF length = -1
        THEN [ret |-> FALSE, messages |-> BaseValidator_error(self, msgs, INVALID_TYPE, val)]
        ELSE IF length < self.min
        THEN [ret |-> FALSE, messages |-> BaseValidator_error(self, msgs, TOO_SHORT, val)]
        ELSE IF self.max # -1 /\ length > self.max
        THEN [ret |-> FALSE, messages |-> BaseValidator_error(self, msgs, TOO_LONG, val)]
        ELSE [ret |-> TRUE, messages |-> msgs]

ObjInit ==
    /\ CallIdle
    /\ HeapIdle
    /\ LookupIdle
    /\ LegacyIdle
    /\ subject \in {Opt(v) : v \in WrappedPool}
    /\ messages = <<>>
    /\ callers = [t \in 1..MaxCallers |-> IdleCaller]
    /\ runs = <<>>

\* caller t enters subject.is_valid(val): self.messages = {}
Enter(t, val) ==
    /\ callers[t].pc = "idle"
    /\ Len(runs) < MaxRuns
    /\ messages' = is_valid_reset(messages)
    /\ callers' = [callers EXCEPT ![t] = [pc |-> "entered", value |-> Opt(val),
                                          ret |-> Nil, seen |-> Nil]]
    /\ UNCHANGED <<subject, runs, callVars, heapVars, lookupVars, legacyVars>>

\* the call of t runs self._internal_is_valid(value)
Check(t) ==
    /\ callers[t].pc = "entered"
    /\ \E r \in {Length_on_self(subject[1], messages, callers[t].value[1])} :
           /\ messages' = r.messages
           /\ callers' = [callers EXCEPT ![t].pc = "checked", ![t].ret = Opt(r.ret)]
    /\ UNCHANGED <<subject, runs, callVars, heapVars, lookupVars, legacyVars>>

\* the call of t returns: its caller has the verdict and reads subject.messages
Leave(t) ==
    /\ callers[t].pc = "checked"
    /\ callers' = [callers EXCEPT ![t].pc = "returned", ![t].seen = Opt(messages)]
    /\ UNCHANGED <<subject, messages, runs, callVars, heapVars, lookupVars, legacyVars>>

\* caller t goes on to its next call; the call that returned is kept in runs
Again(t) ==
    /\ callers[t].pc = "returned"
    /\ runs' = Append(runs, [value |-> callers[t].value[1], ret |-> callers[t].ret[1],
                             messages |-> callers[t].seen[1]])
    /\ callers' = [callers EXCEPT ![t] = IdleCaller]
    /\ UNCHANGED <<subject, messages, callVars, heapVars, lookupVars, legacyVars>>

\* one caller, one call after the other
RerunNext ==
    \/ \E val \in ScalarPool : Enter(1, val)
    \/ Check(1)
    \/ Leave(1)
    \/ Again(1)

RerunSpec == ObjInit /\ [][RerunNext]_vars

\* the verdict and the messages of a call on an object that was never used
FirstRun(self, val) == Length_on_self(self, <<>>, val)

\* C23: a call of a validator object on a value ends with the verdict and the
\* error list (codes, messages, order) of the first call on that value, which
\* are those of an object never used, whatever calls the object served before
C23_Rerun ==
    \A j \in 1..Len(runs) :
        /\ runs[j].ret = FirstRun(subject[1], runs[j].value).ret
        /\ runs[j].messages = FirstRun(subject[1], runs[j].value).messages
        /\ \A i \in 1..j : runs[i].value = runs[j].value =>
                               /\ runs[i].ret = runs[j].ret
                               /\ runs[i].messages = runs[j].messages

\* a value accepted, another value rejected, the first value again
C23_Witness ==
    /\ Len(runs) = 3
    /\ runs[1].value = runs[3].value
    /\ runs[1].messages = <<>>
    /\ runs[2].value # runs[1].value
    /\ runs[2].messages # <<>>
    /\ runs[3].messages = <<>>
    /\ runs[3].ret

\* several callers of the one object, their calls interleaved at every
\* statement of is_valid
ThreadsNext ==
    \E t \in 1..MaxCallers :
        \/ \E val \in ScalarPool : Enter(t, val)
        \/ Check(t)
        \/ Leave(t)

ThreadsSpec == ObjInit /\ [][ThreadsNext]_vars

\* C24: of calls on one validator object that are interleaved, each returns
\* the verdict and the error list it returns when it runs alone
C24_Isolated ==
    \A t \in 1..MaxCallers :
        callers[t].pc = "returned" =>
            /\ callers[t].ret[1] = FirstRun(subject[1], callers[t].value[1]).ret
            /\ callers[t].seen[1] = FirstRun(subject[1], callers[t].value[1]).messages

\* ------------------------------------------- values of the wrong shape

\* C25: the evaluation of a composed validator raises on no value, whatever
\* its shape; every outcome is a context with zero or more errors
C25_NeverRaises == pc # "raised"

\* ------------------------------------------------------- async_complex
\* The validators of async_complex have the configuration of their complex
\* namesakes (they share the mixins) and the class AsyncBaseValidator, which
\* the field async marks. An evaluation awaits each child before it goes on.

IsAsync(self) == "async" \in DOMAIN self

\* the validator of async_complex with the configuration of self
Async(self) ==
    [f \in DOMAIN self \cup {"async"} |-> IF f = "async" THEN TRUE ELSE self[f]]

RECURSIVE is_valid_helper(_, _, _)
RECURSIVE async_is_valid(_, _, _)
RECURSIVE AsyncChain_loop(_, _, _, _, _)
RECURSIVE AsyncSome_loop(_, _, _, _, _, _)
RECURSIVE AsyncAllItems_loop(_, _, _, _, _)
RECURSIVE AsyncSomeItems_loop(_, _, _, _, _, _, _, _)
RECURSIVE AsyncSomeItems_loop_count_all(_, _, _, _, _, _, _, _)
RECURSIVE Async_validate_keys_loop(_, _, _, _, _)
RECURSIVE Async_fields_loop(_, _, _, _, _)

\* is_valid_helper: an AsyncBaseValidator is awaited, any other is called
is_valid_helper(v, val, parent) ==
    IF IsAsync(v) THEN async_is_valid(v, val, parent) ELSE is_valid(v, val, parent)

\* async Deferred._internal_is_valid
AsyncDeferred_internal_is_valid(self, val, ctx) ==
    LET child == is_valid_helper(build_validator(self, ctx), val, Opt(ctx))
    IN  [ctx |-> import_errors(ctx, child.ctx, Nil),
         trace |-> <<FactoryCall(self, ctx)>> \o child.trace]

\* async Chain._internal_is_valid: the loop from child i on
AsyncChain_loop(self, val, ctx, trace, i) ==
    IF i > Len(self.validators) THEN [ctx |-> ctx, trace |-> trace]
    ELSE LET child_ctx == is_valid_helper(self.validators[i], val, Opt(ctx))
             imported == import_errors(ctx, child_ctx.ctx, Nil)
         IN  IF ~IsValidCtx(child_ctx.ctx) /\ self.stop_on_fail
             THEN [ctx |-> imported, trace |-> trace \o child_ctx.trace]
             ELSE AsyncChain_loop(self, val, imported, trace \o child_ctx.trace, i + 1)

AsyncChain_internal_is_valid(self, val, ctx) == AsyncChain_loop(self, val, ctx, <<>>, 1)

\* async Some._internal_is_valid: the loop from child i on
AsyncSome_loop(self, val, ctx, trace, child_ctxs, i) ==
    IF i > Len(self.validators)
    THEN [ctx |-> import_all(ctx, child_ctxs, 1), trace |-> trace]
    ELSE LET child_ctx == is_valid_helper(self.validators[i], val, Opt(ctx))
         IN  IF IsValidCtx(child_ctx.ctx)
             THEN [ctx |-> ctx, trace |-> trace \o child_ctx.trace]
             ELSE AsyncSome_loop(self, val, ctx, trace \o child_ctx.trace,
                                 Append(child_ctxs, child_ctx.ctx), i + 1)

\* async AllItems._internal_is_valid: the loop from item i on
AsyncAllItems_loop(self, val, ctx, trace, i) ==
    LET items == _iter_values(val)
    IN  IF i > Len(items) THEN [ctx |-> ctx, trace |-> trace]
        ELSE LET child_ctx == is_valid_helper(self.validator, items[i].val, Opt(ctx))
             IN  IF IsValidCtx(child_ctx.ctx)
                 THEN AsyncAllItems_loop(self, val, ctx, trace \o child_ctx.trace, i + 1)
                 ELSE IF self.stop_on_fail
                 THEN [ctx |-> import_errors(ctx, child_ctx.ctx, Opt(str(items[i].idx))),
                       trace |-> trace \o child_ctx.trace]
                 ELSE AsyncAllItems_loop(self, val,
                          import_errors(ctx, child_ctx.ctx, Opt(str(items[i].idx))),
                          trace \o child_ctx.trace, i + 1)

\* async SomeItems._internal_is_valid: the code after the loop
AsyncSomeItems_after_loop(self, ctx, tmp_ctx, trace, item_pass) ==
    LET checked == IF self.min # -1 /\ item_pass < self.min
                   THEN validator_error(self, TOO_FEW_VALID_ITEMS, ctx, <<>>)
                   ELSE ctx
    IN  [ctx |-> IF ~IsValidCtx(checked) THEN import_errors(checked, tmp_ctx, Nil)
                 ELSE checked,
         trace |-> trace]

\* faulty variant: a rejected item is counted as passing
AsyncSomeItems_loop_count_all(self, val, ctx, tmp_ctx, trace, item_pass, already_too_many, i) ==
    LET items == _iter_values(val)
    IN  IF i > Len(items) THEN AsyncSomeItems_after_loop(self, ctx, tmp_ctx, trace, item_pass)
        ELSE LET child_ctx == is_valid_helper(self.validator, items[i].val, Opt(tmp_ctx))
                 tmp2 == IF ~IsValidCtx(child_ctx.ctx)
                         THEN import_errors(tmp_ctx, child_ctx.ctx, Opt(str(items[i].idx)))
                         ELSE tmp_ctx
             IN  IF ~already_too_many /\ self.max # -1 /\ item_pass + 1 > self.max
                 THEN IF self.stop_on_fail
                      THEN AsyncSomeItems_after_loop(
                               self, validator_error(self, TOO_MANY_VALID_ITEMS, ctx, <<>>),
                               tmp2, trace \o child_ctx.trace, item_pass + 1)
                      ELSE AsyncSomeItems_loop_count_all(
                               self, val, validator_error(self, TOO_MANY_VALID_ITEMS, ctx, <<>>),
                               tmp2, trace \o child_ctx.trace, item_pass + 1, TRUE, i + 1)
                 ELSE AsyncSomeItems_loop_count_all(self, val, ctx, tmp2,
                          trace \o child_ctx.trace, item_pass + 1, already_too_many, i + 1)

\* async SomeItems._internal_is_valid: the loop from item i on; the maximum
\* is checked in the branch of a passing item
AsyncSomeItems_loop(self, val, ctx, tmp_ctx, trace, item_pass, already_too_many, i) ==
    LET items == _iter_values(val)
    IN  IF i > Len(items) THEN AsyncSomeItems_after_loop(self, ctx, tmp_ctx, trace, item_pass)
        ELSE LET child_ctx == is_valid_helper(self.validator, items[i].val, Opt(tmp_ctx))
             IN  IF ~IsValidCtx(child_ctx.ctx)
                 THEN AsyncSomeItems_loop(
                          self, val, ctx,
                          import_errors(tmp_ctx, child_ctx.ctx, Opt(str(items[i].idx))),
                          trace \o child_ctx.trace, item_pass, already_too_many, i + 1)
                 ELSE IF ~already_too_many /\ self.max # -1 /\ item_pass + 1 > self.max
                 THEN IF self.stop_on_fail
                      THEN AsyncSomeItems_after_loop(
                               self, validator_error(self, TOO_MANY_VALID_ITEMS, ctx, <<>>),
                               tmp_ctx, trace \o child_ctx.trace, item_pass + 1)
                      ELSE AsyncSomeItems_loop(
                               self, val, validator_error(self, TOO_MANY_VALID_ITEMS, ctx, <<>>),
                               tmp_ctx, trace \o child_ctx.trace, item_pass + 1, TRUE, i + 1)
                 ELSE AsyncSomeItems_loop(self, val, ctx, tmp_ctx, trace \o child_ctx.trace,
                                          item_pass + 1, already_too_many, i + 1)

AsyncSomeItems_internal_is_valid(self, val, ctx) ==
    AsyncSomeItems_loop(self, val, ctx, Context(PyNone, Opt(ctx), FALSE, <<>>),
                        <<>>, 0, FALSE, 1)

\* async IfField._internal_is_valid from the guard on, field_value looked up
AsyncIfField_on_field_value(self, val, ctx, field_value) ==
    IF ~self.run_if_none /\ field_value.t = "none" THEN [ctx |-> ctx, trace |-> <<>>]
    ELSE LET field_valid_ctx ==
                 IF self.field_validator # Nil
                 THEN is_valid_helper(self.field_validator[1], field_value, Opt(ctx))
                 ELSE [ctx |-> ctx, trace |-> <<>>]
         IN  IF self.field_validator # Nil /\ ~IsValidCtx(field_valid_ctx.ctx)
             THEN [ctx |-> ctx, trace |-> field_valid_ctx.trace]
             ELSE LET child_ctx == is_valid_helper(self.validator, val, Opt(ctx))
                  IN  [ctx |-> IF IsValidCtx(child_ctx.ctx) THEN ctx
                               ELSE IF self.add_check_info
                               THEN validator_error(
                                        self, NEEDS_VALIDATE,
                                        import_errors(ctx, child_ctx.ctx, Nil),
                                        <<[k |-> "field_value", v |-> field_value]>>)
                               ELSE import_errors(ctx, child_ctx.ctx, Nil),
                       trace |-> field_valid_ctx.trace \o child_ctx.trace]

AsyncIfField_internal_is_valid(self, val, ctx) ==
    AsyncIfField_on_field_value(self, val, ctx, get_field_value(ctx, self.field_name))

\* async BaseSpec._internal_validate_keys: the loop from key i on
Async_validate_keys_loop(self, keys, ctx, trace, i) ==
    IF i > Len(keys) THEN [ctx |-> ctx, trace |-> trace]
    ELSE IF InSpec(self, keys[i]) THEN Async_validate_keys_loop(self, keys, ctx, trace, i + 1)
    ELSE LET key_ctx == is_valid_helper(self.key_validator[1], keys[i], Opt(ctx))
             child_ctx == validator_error(self, INVALID_KEY, build_child(ctx, keys[i]), <<>>)
             imported == import_errors(import_errors(ctx, child_ctx, Nil),
                                       key_ctx.ctx, Opt(keys[i].s))
         IN  IF IsValidCtx(key_ctx.ctx)
             THEN Async_validate_keys_loop(self, keys, ctx, trace \o key_ctx.trace, i + 1)
             ELSE IF self.stop_on_fail
             THEN [ctx |-> imported, trace |-> trace \o key_ctx.trace]
             ELSE Async_validate_keys_loop(self, keys, imported, trace \o key_ctx.trace, i + 1)

\* async BaseSpec._internal_validate_values, and the end of _internal_is_valid
Async_values_phase(self, val, ctx, trace) ==
    IF self.value_validators = Nil THEN [ctx |-> ctx, trace |-> trace]
    ELSE LET child_ctx == is_valid_helper(self.value_validators[1],
                                          PyDict(temp_entries(self, val, 1)), Opt(ctx))
         IN  [ctx |-> import_errors(ctx, child_ctx.ctx, Nil),
              trace |-> trace \o child_ctx.trace]

\* async BaseSpec._internal_is_valid: the loop over the spec from entry i
\* on, with _internal_field_validate
Async_fields_loop(self, val, ctx, trace, i) ==
    IF i > Len(self.spec) THEN Async_values_phase(self, val, ctx, trace)
    ELSE LET child_ctx == is_valid_helper(self.spec[i].validator,
                                          Dict_get_field_value(self.spec[i].name, val),
                                          Opt(ctx))
             imported == import_errors(ctx, child_ctx.ctx, Opt(self.spec[i].name.s))
         IN  IF ~IsValidCtx(imported) /\ self.stop_on_fail
             THEN [ctx |-> imported, trace |-> trace \o child_ctx.trace]
             ELSE Async_fields_loop(self, val, imported, trace \o child_ctx.trace, i + 1)

\* async BaseSpec._internal_is_valid
AsyncBaseSpec_internal_is_valid(self, val, ctx) ==
    LET keys == IF self.key_validator # Nil
                THEN Async_validate_keys_loop(self, _get_keys(val), ctx, <<>>, 1)
                ELSE [ctx |-> ctx, trace |-> <<>>]
    IN  IF self.key_validator # Nil /\ ~IsValidCtx(keys.ctx) /\ self.stop_on_fail
        THEN keys
        ELSE Async_fields_loop(self, val, keys.ctx, keys.trace, 1)

\* async DictValidate._internal_is_valid
AsyncDictValidate_internal_is_valid(self, val, ctx) ==
    IF val.t # "dict"
    THEN [ctx |-> validator_error(self, NOT_DICT, ctx, <<>>), trace |-> <<>>]
    ELSE AsyncBaseSpec_internal_is_valid(self, val, ctx)

\* async Required._internal_is_valid
AsyncRequired_internal_is_valid(self, val, ctx) ==
    LET empty == is_valid_helper(self.empty_validator, val, Opt(ctx))
        rest == AsyncChain_internal_is_valid(self, val, ctx)
    IN  IF ~IsValidCtx(empty.ctx)
        THEN [ctx |-> validator_error(self, REQUIRED, ctx, <<>>), trace |-> empty.trace]
        ELSE [ctx |-> rest.ctx, trace |-> empty.trace \o rest.trace]

\* async Optional._internal_is_valid
AsyncOptional_internal_is_valid(self, val, ctx) ==
    LET empty == is_valid_helper(self.empty_validator, val, Opt(ctx))
        rest == AsyncChain_internal_is_valid(self, val, ctx)
    IN  IF ~IsValidCtx(empty.ctx) THEN [ctx |-> ctx, trace |-> empty.trace]
        ELSE [ctx |-> rest.ctx, trace |-> empty.trace \o rest.trace]

\* await self._internal_is_valid(value, ctx=ctx), by the class of self
async_internal_is_valid(self, val, ctx) ==
    CASE self.kind = "Deferred" -> AsyncDeferred_internal_is_valid(self, val, ctx)
      [] self.kind = "Chain" -> AsyncChain_internal_is_valid(self, val, ctx)
      [] self.kind = "Some" -> AsyncSome_loop(self, val, ctx, <<>>, <<>>, 1)
      [] self.kind = "AllItems" -> AsyncAllItems_loop(self, val, ctx, <<>>, 1)
      [] self.kind = "SomeItems" -> AsyncSomeItems_internal_is_valid(self, val, ctx)
      [] self.kind = "IfField" -> AsyncIfField_internal_is_valid(self, val, ctx)
      [] self.kind = "DictValidate" -> AsyncDictValidate_internal_is_valid(self, val, ctx)
      [] self.kind = "Required" -> AsyncRequired_internal_is_valid(self, val, ctx)
      [] self.kind = "Optional" -> AsyncOptional_internal_is_valid(self, val, ctx)

\* AsyncBaseValidator.is_valid: the context, and the calls of is_valid made
async_returned(self, val, r) ==
    [ctx |-> r.ctx, trace |-> <<[validator |-> self, value |-> val]>> \o r.trace]

async_is_valid(self, val, parent) ==
    async_returned(self, val,
                   async_internal_is_valid(self, val, _build_context(self, val, parent)))

\* the children given to an async Chain or Some: leaves, a sync composite
\* and an async composite
AsyncChildPool ==
    {Length(4, 6), Length(1, 2), Chain(<<Length(4, 6), Length(1, 2)>>, FALSE),
     Async(Chain(<<Length(4, 6), Length(1, 2)>>, FALSE))}

\* the validators given to an async validator of items, and their items
AsyncItemCases ==
    {[v |-> c, val |-> val] : c \in {Length(4, 6), Length(5, 16)}, val \in SmallListPool}
        \cup {[v |-> c, val |-> PyList(q)] :
                 c \in {AllItems(Length(5, 16), TRUE), Async(AllItems(Length(5, 16), FALSE)),
                        Async(Some(<<Length(5, 16), AllItems(Length(5, 16), FALSE)>>))},
                 q \in SeqsUpTo(InnerPool, 2)}

\* the evaluations of async validators: validator, value and parent context
AsyncCases ==
    {[v |-> Async(Chain(vs, stop)), val |-> val, parent |-> Nil] :
        vs \in SeqsUpTo(AsyncChildPool, 2), stop \in BOOLEAN, val \in ScalarPool}
    \cup {[v |-> Async(Some(vs)), val |-> val, parent |-> Nil] :
             vs \in SeqsUpTo(AsyncChildPool, 2), val \in ScalarPool}
    \cup {[v |-> Async(AllItems(c.v, stop)), val |-> c.val, parent |-> Nil] :
             c \in AsyncItemCases, stop \in BOOLEAN}
    \cup {[v |-> Async(SomeItems(lim[1], lim[2], c.v, stop)), val |-> c.val, parent |-> Nil] :
             lim \in {l \in (-1..MaxItems) \X (-1..MaxItems) : SomeItems_init_ok(l[1], l[2])},
             c \in AsyncItemCases, stop \in BOOLEAN}
    \cup {[v |-> Async(IfField(v, field_name, field_validator, flags[1], flags[2])),
           val |-> val, parent |-> parent] :
             v \in {Length(4, 6), Async(Chain(<<Length(4, 6), Length(1, 2)>>, FALSE))},
             field_name \in {s_x, s_f1},
             field_validator \in {Nil, Opt(Length(1, 2)), Opt(Async(Chain(<<NotNone>>, TRUE)))},
             flags \in BOOLEAN \X BOOLEAN, val \in ScalarPool, parent \in ParentPool}
    \cup {[v |-> Async(DictValidate(spec, stop, key_validator, value_validators)),
           val |-> val, parent |-> Nil] :
             spec \in SpecPool, stop \in BOOLEAN,
             key_validator \in {Nil, Opt(Length(1, 2)), Opt(Async(Chain(<<Length(5, 9)>>, TRUE)))},
             value_validators \in {Nil, Opt(Async(AllItems(Length(4, 6), FALSE)))},
             val \in DictPool \cup {PyNone}}
    \cup {[v |-> Async(Required(vs, stop, empty_validator)), val |-> val, parent |-> Nil] :
             vs \in SeqsUpTo(WrappedPool, 2), stop \in BOOLEAN,
             empty_validator \in EmptyValidatorPool, val \in MaybeEmptyPool}
    \cup {[v |-> Async(Optional(vs, stop, empty_validator)), val |-> val, parent |-> Nil] :
             vs \in SeqsUpTo(WrappedPool, 2), stop \in BOOLEAN,
             empty_validator \in EmptyValidatorPool, val \in MaybeEmptyPool}
    \cup {[v |-> Async(Deferred("Validator")), val |-> val, parent |-> Nil] :
             val \in RecordPool}
    \cup {[v |-> Async(Deferred("Length")), val |-> val, parent |-> Nil] :
             val \in ScalarPool}

\* await is_valid_helper(validator, value, parent_ctx=parent) on an async
\* validator: the whole evaluation
CallAsync ==
    /\ pc = "ready"
    /\ \E c \in AsyncCases :
          \E r \in {is_valid_helper(c.v, c.val, c.parent)} :
              /\ pc' = "done"
              /\ validator' = Opt(c.v)
              /\ value' = Opt(c.val)
              /\ parent_ctx' = c.parent
              /\ result' = Opt(r.ctx)
              /\ executed' = r.trace
              /\ UNCHANGED <<heapVars, lookupVars, objVars, legacyVars>>

AsyncNext ==
    \/ CallAsync
    \/ Return

AsyncSpec == Init /\ [][AsyncNext]_vars

\* the validator of complex with the configuration of an async validator
SyncOf(self) == [f \in DOMAIN self \ {"async"} |-> self[f]]

RECURSIVE ToSync(_)
\* the tree of validators of complex that corresponds to a tree
ToSync(self) ==
    CASE self.kind \in {"Chain", "Some", "Required", "Optional"} ->
            [SyncOf(self) EXCEPT !.validators = [i \in 1..Len(@) |-> ToSync(@[i])]]
      [] self.kind \in {"AllItems", "SomeItems"} ->
            [SyncOf(self) EXCEPT !.validator = ToSync(@)]
      [] self.kind = "IfField" ->
            [SyncOf(self) EXCEPT !.validator = ToSync(@),
                                 !.field_validator = IF @ = Nil THEN Nil ELSE Opt(ToSync(@[1]))]
      [] self.kind = "DictValidate" ->
            [SyncOf(self) EXCEPT
                !.spec = [i \in 1..Len(@) |-> [@[i] EXCEPT !.validator = ToSync(@)]],
                !.key_validator = IF @ = Nil THEN Nil ELSE Opt(ToSync(@[1])),
                !.value_validators = IF @ = Nil THEN Nil ELSE Opt(ToSync(@[1]))]
      [] OTHER -> SyncOf(self)

\* the calls of a trace, each validator replaced by the one of complex
SyncTrace(trace) ==
    [i \in 1..Len(trace) |-> [validator |-> ToSync(trace[i].validator),
                              value |-> trace[i].value]]

\* what the tree of complex does on the value of the observed evaluation
SyncRun == is_valid(ToSync(validator[1]), value[1], parent_ctx)

s_tooShort == <<"t", "o", "o", "S", "h", "o", "r", "t">>

s_invalidKey == <<"i", "n", "v", "a", "l", "i", "d", "K", "e", "y">>

\* the characters of an error code
CodeChars(code) ==
    CASE code = TOO_SHORT -> s_tooShort
      [] code = INVALID_KEY -> s_invalidKey

\* ValidationErrorMessage.msg: the rendered message, a string
Msg(m) == [t |-> "str", msg |-> safe_substitute(m.msg_tpl, m.ctx_values)]

RECURSIVE GroupPaths(_, _, _)
\* the keys of msgs after the loop: the field paths of the errors from i on
\* that are not in seen, each once, in order of first occurrence
GroupPaths(errs, seen, i) ==
    IF i > Len(errs) THEN seen
    ELSE GroupPaths(errs,
                    IF \E j \in 1..Len(seen) : seen[j] = errs[i].field_path THEN seen
                    ELSE Append(seen, errs[i].field_path),
                    i + 1)

\* msgs[field_path]: the errors of that path, in context order
ErrorsAt(errs, field_path) == SelectSeq(errs, LAMBDA m : m.field_path = field_path)

RECURSIVE CodeDict(_, _, _)
\* {m.code: m.msg for m in ms}, from error i on
CodeDict(ms, d, i) ==
    IF i > Len(ms) THEN d ELSE CodeDict(ms, SetItem(d, CodeChars(ms[i].code), Msg(ms[i])), i + 1)

RECURSIVE PathDict(_, _, _, _)
\* {f: {m.code: m.msg for m in ms} for f, ms in msgs.items() if f is not None}
PathDict(errs, paths, d, i) ==
    IF i > Len(paths) THEN d
    ELSE PathDict(errs, paths,
                  IF paths[i] = Nil THEN d
                  ELSE SetItem(d, paths[i][1],
                               PyDict(CodeDict(ErrorsAt(errs, paths[i]), <<>>, 1))),
                  i + 1)

\* faulty variant: the first error of a code is kept
from_context_to_legacy_message_first(ctx) ==
    LET errs == ctx.error_messages
        backwards == [i \in 1..Len(errs) |-> errs[Len(errs) + 1 - i]]
    IN  DictUpdate(CodeDict(ErrorsAt(backwards, Nil), <<>>, 1),
                   PathDict(backwards, GroupPaths(errs, <<>>, 1), <<>>, 1), 1)

from_context_to_legacy_message(ctx) ==
    LET errs == ctx.error_messages
    IN  DictUpdate(CodeDict(ErrorsAt(errs, Nil), <<>>, 1),
                   PathDict(errs, GroupPaths(errs, <<>>, 1), <<>>, 1), 1)

\* the errors of the exported contexts: two codes, at the root, under a
\* field and under a key that reads as an error code, with two values
ExportedErrors ==
    {ValidationErrorMessage(code, error_messages(code), <<[k |-> "value", v |-> val]>>, fp) :
        code \in {TOO_SHORT, INVALID_KEY}, val \in {PyStr(s_a), PyStr(s_tes)},
        fp \in {Nil, Opt(s_f1), Opt(s_invalidKey)}}

LegacyInit ==
    /\ CallIdle
    /\ HeapIdle
    /\ LookupIdle
    /\ ObjIdle
    /\ legacy_ctx \in {Opt([Context(PyNone, Nil, TRUE, <<>>) EXCEPT !.error_messages = errs]) :
                          errs \in SeqsUpTo(ExportedErrors, MaxExported)}
    /\ legacy_result = Nil

\* from_context_to_legacy_message(ctx)
Export ==
    /\ legacy_result = Nil
    /\ legacy_result' = Opt(from_context_to_legacy_message(legacy_ctx[1]))
    /\ UNCHANGED <<legacy_ctx, callVars, heapVars, lookupVars, objVars>>

LegacyNext == Export

LegacySpec == LegacyInit /\ [][LegacyNext]_vars

\* d[k], Nil where d has no key k
GetItem(d, k) ==
    IF \E i \in 1..Len(d) : d[i].k = k
    THEN Opt(d[CHOOSE i \in 1..Len(d) : d[i].k = k].v)
    ELSE Nil

\* error i is the last of its path and code in the context
LastOfItsKind(errs, i) ==
    \A j \in (i + 1)..Len(errs) :
        ~(errs[j].field_path = errs[i].field_path /\ errs[j].code = errs[i].code)

\* the mapping exported holds the last error of each path and code of errs
\* where the legacy form has it, and nothing else
LegacyShape(errs, exported) ==
    /\ \A i \in 1..Len(errs) :
           LastOfItsKind(errs, i) =>
               IF errs[i].field_path = Nil
               THEN GetItem(exported, CodeChars(errs[i].code)) = Opt(Msg(errs[i]))
               ELSE /\ GetItem(exported, errs[i].field_path[1]) # Nil
                    /\ GetItem(exported, errs[i].field_path[1])[1].t = "dict"
                    /\ GetItem(GetItem(exported, errs[i].field_path[1])[1].entries,
                               CodeChars(errs[i].code)) = Opt(Msg(errs[i]))
    /\ \A n \in 1..Len(exported) :
           IF exported[n].v.t = "dict"
           THEN \A c \in 1..Len(exported[n].v.entries) :
                    \E i \in 1..Len(errs) :
                        /\ errs[i].field_path = Opt(exported[n].k)
                        /\ CodeChars(errs[i].code) = exported[n].v.entries[c].k
           ELSE \E i \in 1..Len(errs) :
                    /\ errs[i].field_path = Nil
                    /\ CodeChars(errs[i].code) = exported[n].k

NoPathIsACode(errs) ==
    \A i, j \in 1..Len(errs) :
        (errs[i].field_path = Nil /\ errs[j].field_path # Nil) =>
            errs[j].field_path[1] # CodeChars(errs[i].code)

\* the shape holds for every context in which no field path is such a code
LegacyShapeUnlessClash ==
    (legacy_result # Nil /\ NoPathIsACode(legacy_ctx[1].error_messages)) =>
        LegacyShape(legacy_ctx[1].error_messages, legacy_result[1])

\* ------------------------------------------------ ItemLimitedOccurrences

\* the items of the observed value, in iteration order
ItemsOf == [i \in 1..Len(_iter_values(value[1])) |-> _iter_values(value[1])[i].val]

\* the occurrences of item x among the first n items
CountIn(items, x, n) == Cardinality({i \in 1..n : items[i] = x})

\* the positions whose item has by then occurred more than max_occ times
Excess(items, max_occ) == {i \in 1..Len(items) : CountIn(items, items[i], i) > max_occ}

\* the positions of first occurrence of the items that occur less than
\* min_occ times in all
Lacking(items, min_occ) ==
    {i \in 1..Len(items) : /\ CountIn(items, items[i], i) = 1
                           /\ CountIn(items, items[i], Len(items)) < min_occ}

\* the one error of ItemLimitedOccurrences on item x: no field path
OccurrenceError(e, code, x) ==
    /\ e.code = code
    /\ e.field_path = Nil
    /\ e.msg_tpl = error_messages(code)
    /\ \E n \in 1..Len(e.ctx_values) : e.ctx_values[n] = [k |-> "value", v |-> x]

StopOnFailKinds == {"Chain", "AllItems", "SomeItems", "DictValidate"}

\* the observed validator built with the given stop_on_fail, children as
\* they are
WithStop(stop) == [validator[1] EXCEPT !.stop_on_fail = stop]

\* the errors the observed call returns under the given stop_on_fail
ErrorsUnderStop(stop) == is_valid(WithStop(stop), value[1], parent_ctx).ctx.error_messages

IsPrefixOf(s, t) == Len(s) <= Len(t) /\ SubSeq(t, 1, Len(s)) = s

C29_WitnessChain ==
    Done("Chain") /\ validator[1].stop_on_fail /\ Len(ResultErrors) < Len(ErrorsUnderStop(FALSE))

C29_WitnessAllItems ==
    Done("AllItems") /\ validator[1].stop_on_fail
        /\ Len(ResultErrors) < Len(ErrorsUnderStop(FALSE))

C29_WitnessSomeItems ==
    Done("SomeItems") /\ validator[1].stop_on_fail
        /\ Len(ResultErrors) < Len(ErrorsUnderStop(FALSE))

\* ------------------------------------------------------------------ C30

\* the number of errors of the result with this code, whatever their path
CodeCount(code) ==
    Cardinality({n \in 1..Len(ResultErrors) : ResultErrors[n].code = code})

\* the number of items of the whole container that pass the child validator
PassingItems == PassCount(ItemCount)

C30_WitnessValid ==
    /\ Done("SomeItems")
    /\ validator[1].min = validator[1].max
    /\ PassingItems = validator[1].min
    /\ PassingItems < ItemCount
    /\ IsValidCtx(result[1])

====
